---- MODULE Spec2Model ----
(***************************************************************************)
(* Model of the createAffiliate Lambda handler                              *)
(* (src/amplify/backend/function/createAffiliate/src/index.js).            *)
(*                                                                         *)
(* A JavaScript string is a sequence of one-character strings, so that     *)
(* trim(), toLowerCase(), length and the digit test are computed on the    *)
(* characters.  A JSON value is a record [t, s]: t is its JavaScript type  *)
(* and s its characters (a string's content, a number's decimal form).     *)
(* Property names, vendor field keys and the fragments of response texts   *)
(* are TLA+ strings: the code only compares or forwards them.              *)
(***************************************************************************)
EXTENDS Integers, Sequences, FiniteSets, TLC

\* ---------------------------------------------------------------- strings

UpperLetters == <<"A", "B", "C", "D", "E", "F", "G", "H", "I", "J", "K", "L", "M", "N", "O", "P", "Q", "R", "S", "T", "U", "V", "W", "X", "Y", "Z">>
LowerLetters == <<"a", "b", "c", "d", "e", "f", "g", "h", "i", "j", "k", "l", "m", "n", "o", "p", "q", "r", "s", "t", "u", "v", "w", "x", "y", "z">>
WhiteSpace == {" ", "\t", "\n"}
DecimalDigits == {"0", "1", "2", "3", "4", "5", "6", "7", "8", "9"}

\* String.prototype.toLowerCase / toUpperCase, character by character
LowerOf == [c \in {UpperLetters[k] : k \in 1..Len(UpperLetters)} |->
               LowerLetters[CHOOSE k \in 1..Len(UpperLetters) : UpperLetters[k] = c]]
UpperOf == [c \in {LowerLetters[k] : k \in 1..Len(LowerLetters)} |->
               UpperLetters[CHOOSE k \in 1..Len(LowerLetters) : LowerLetters[k] = c]]
LowerChar(c) == IF c \in DOMAIN LowerOf THEN LowerOf[c] ELSE c
UpperChar(c) == IF c \in DOMAIN UpperOf THEN UpperOf[c] ELSE c
toLowerCase(s) == [k \in 1..Len(s) |-> LowerChar(s[k])]
toUpperCase(s) == [k \in 1..Len(s) |-> UpperChar(s[k])]

\* String.prototype.trim: drop the white space at both ends
RECURSIVE trimStart(_)
trimStart(s) ==
    IF s # <<>> /\ Head(s) \in WhiteSpace THEN trimStart(Tail(s)) ELSE s
RECURSIVE trimEnd(_)
trimEnd(s) ==
    IF s # <<>> /\ s[Len(s)] \in WhiteSpace
    THEN trimEnd(SubSeq(s, 1, Len(s) - 1))
    ELSE s
trim(s) == trimEnd(trimStart(s))

\* /^[0-9]+$/.test(s)
IsDigitString(s) == s # <<>> /\ \A k \in 1..Len(s) : s[k] \in DecimalDigits


\* ------------------------------------------------------------ JSON values

Undefined == [t |-> "undefined", s |-> <<>>]
Null == [t |-> "null", s |-> <<>>]
Str(s) == [t |-> "string", s |-> s]
Num(s) == [t |-> "number", s |-> s]
JSTrue == [t |-> "boolean", s |-> <<"t", "r", "u", "e">>]
JSFalse == [t |-> "boolean", s |-> <<"f", "a", "l", "s", "e">>]
Obj(s) == [t |-> "object", s |-> s]
\* A function value; s is its source text, which String(v) gives
Fn(s) == [t |-> "function", s |-> s]

\* JavaScript truthiness (the tests `!x`, `x &&`, `x ||`, `if (x)`)
Truthy(v) ==
    CASE v.t = "undefined" -> FALSE
      [] v.t = "null" -> FALSE
      [] v.t = "string" -> v.s # <<>>
      [] v.t = "number" -> v.s # <<"0">>
      [] v.t = "boolean" -> v = JSTrue
      [] OTHER -> TRUE

\* String(v) for a value v
JSString(v) ==
    CASE v.t = "undefined" -> <<"u", "n", "d", "e", "f", "i", "n", "e", "d">>
      [] v.t = "null" -> <<"n", "u", "l", "l">>
      [] v.t = "object" -> <<"[", "o", "b", "j", "e", "c", "t", " ", "O", "b", "j", "e", "c", "t", "]">>
      [] OTHER -> v.s


\* ------------------------------------------------ literals of the source

MODE_CREATE == <<"c", "r", "e", "a", "t", "e", "_", "a", "f", "f", "i", "l", "i", "a", "t", "e", "_", "o", "n", "l", "y">>
MODE_FINALIZE == <<"f", "i", "n", "a", "l", "i", "z", "e", "_", "a", "f", "f", "i", "l", "i", "a", "t", "e">>
MODE_UPDATE == <<"u", "p", "d", "a", "t", "e", "_", "c", "u", "s", "t", "o", "m", "_", "f", "i", "e", "l", "d", "s">>
LABEL_COMPANY_TYPE == <<"C", "o", "m", "p", "a", "n", "y", " ", "t", "y", "p", "e">>
LABEL_COMMISSION_TYPE == <<"C", "o", "m", "m", "i", "s", "s", "i", "o", "n", " ", "t", "y", "p", "e">>
LABEL_DEMO_CALL == <<"F", "r", "e", "e", " ", "D", "E", "M", "O", " ", "c", "a", "l", "l", "?">>
LABEL_DEMO_CALL_ALT == <<"D", "o", " ", "y", "o", "u", " ", "w", "a", "n", "t", " ", "a", " ", "F", "R", "E", "E", " ", "D", "E", "M", "O", " ", "c", "a", "l", "l", "?">>
COMMISSION_10 == <<"I", " ", "w", "a", "n", "t", " ", "1", "0", "%", " ", "c", "o", "m", "m", "i", "s", "s", "i", "o", "n">>
COMMISSION_DISCOUNT == <<"I", " ", "w", "a", "n", "t", " ", "1", "0", "%", " ", "d", "i", "s", "c", "o", "u", "n", "t", " ", "c", "o", "d", "e">>
COMMISSION_CUSTOM == <<"C", "u", "s", "t", "o", "m">>
NA == <<"n", "/", "a">>
STR_SENTINEL == <<"S", "T", "R">>
YES == <<"Y", "e", "s">>
NO == <<"N", "o">>

\* ------------------------------------------------------ helpers of index.js

\* What a property read on an object literal finds when the name is not one
\* of its own: the members every object inherits from Object.prototype
ObjectPrototype ==
    (<<"c", "o", "n", "s", "t", "r", "u", "c", "t", "o", "r">> :> Fn(<<"f", "u", "n", "c", "t", "i", "o", "n", " ", "O", "b", "j", "e", "c", "t", "(", ")", " ", "{", " ", "[", "n", "a", "t", "i", "v", "e", " ", "c", "o", "d", "e", "]", " ", "}">>)) @@
    (<<"t", "o", "S", "t", "r", "i", "n", "g">> :> Fn(<<"f", "u", "n", "c", "t", "i", "o", "n", " ", "t", "o", "S", "t", "r", "i", "n", "g", "(", ")", " ", "{", " ", "[", "n", "a", "t", "i", "v", "e", " ", "c", "o", "d", "e", "]", " ", "}">>)) @@
    (<<"t", "o", "L", "o", "c", "a", "l", "e", "S", "t", "r", "i", "n", "g">> :> Fn(<<"f", "u", "n", "c", "t", "i", "o", "n", " ", "t", "o", "L", "o", "c", "a", "l", "e", "S", "t", "r", "i", "n", "g", "(", ")", " ", "{", " ", "[", "n", "a", "t", "i", "v", "e", " ", "c", "o", "d", "e", "]", " ", "}">>)) @@
    (<<"v", "a", "l", "u", "e", "O", "f">> :> Fn(<<"f", "u", "n", "c", "t", "i", "o", "n", " ", "v", "a", "l", "u", "e", "O", "f", "(", ")", " ", "{", " ", "[", "n", "a", "t", "i", "v", "e", " ", "c", "o", "d", "e", "]", " ", "}">>)) @@
    (<<"h", "a", "s", "O", "w", "n", "P", "r", "o", "p", "e", "r", "t", "y">> :> Fn(<<"f", "u", "n", "c", "t", "i", "o", "n", " ", "h", "a", "s", "O", "w", "n", "P", "r", "o", "p", "e", "r", "t", "y", "(", ")", " ", "{", " ", "[", "n", "a", "t", "i", "v", "e", " ", "c", "o", "d", "e", "]", " ", "}">>)) @@
    (<<"i", "s", "P", "r", "o", "t", "o", "t", "y", "p", "e", "O", "f">> :> Fn(<<"f", "u", "n", "c", "t", "i", "o", "n", " ", "i", "s", "P", "r", "o", "t", "o", "t", "y", "p", "e", "O", "f", "(", ")", " ", "{", " ", "[", "n", "a", "t", "i", "v", "e", " ", "c", "o", "d", "e", "]", " ", "}">>)) @@
    (<<"p", "r", "o", "p", "e", "r", "t", "y", "I", "s", "E", "n", "u", "m", "e", "r", "a", "b", "l", "e">> :> Fn(<<"f", "u", "n", "c", "t", "i", "o", "n", " ", "p", "r", "o", "p", "e", "r", "t", "y", "I", "s", "E", "n", "u", "m", "e", "r", "a", "b", "l", "e", "(", ")", " ", "{", " ", "[", "n", "a", "t", "i", "v", "e", " ", "c", "o", "d", "e", "]", " ", "}">>)) @@
    (<<"_", "_", "d", "e", "f", "i", "n", "e", "G", "e", "t", "t", "e", "r", "_", "_">> :> Fn(<<"f", "u", "n", "c", "t", "i", "o", "n", " ", "_", "_", "d", "e", "f", "i", "n", "e", "G", "e", "t", "t", "e", "r", "_", "_", "(", ")", " ", "{", " ", "[", "n", "a", "t", "i", "v", "e", " ", "c", "o", "d", "e", "]", " ", "}">>)) @@
    (<<"_", "_", "d", "e", "f", "i", "n", "e", "S", "e", "t", "t", "e", "r", "_", "_">> :> Fn(<<"f", "u", "n", "c", "t", "i", "o", "n", " ", "_", "_", "d", "e", "f", "i", "n", "e", "S", "e", "t", "t", "e", "r", "_", "_", "(", ")", " ", "{", " ", "[", "n", "a", "t", "i", "v", "e", " ", "c", "o", "d", "e", "]", " ", "}">>)) @@
    (<<"_", "_", "l", "o", "o", "k", "u", "p", "G", "e", "t", "t", "e", "r", "_", "_">> :> Fn(<<"f", "u", "n", "c", "t", "i", "o", "n", " ", "_", "_", "l", "o", "o", "k", "u", "p", "G", "e", "t", "t", "e", "r", "_", "_", "(", ")", " ", "{", " ", "[", "n", "a", "t", "i", "v", "e", " ", "c", "o", "d", "e", "]", " ", "}">>)) @@
    (<<"_", "_", "l", "o", "o", "k", "u", "p", "S", "e", "t", "t", "e", "r", "_", "_">> :> Fn(<<"f", "u", "n", "c", "t", "i", "o", "n", " ", "_", "_", "l", "o", "o", "k", "u", "p", "S", "e", "t", "t", "e", "r", "_", "_", "(", ")", " ", "{", " ", "[", "n", "a", "t", "i", "v", "e", " ", "c", "o", "d", "e", "]", " ", "}">>)) @@
    (<<"_", "_", "p", "r", "o", "t", "o", "_", "_">> :> Obj(<<>>))

\* PROGRAM_ID_MAP: currency code -> vendor program slug
PROGRAM_ID_MAP ==
    (<<"U", "S", "D">> :> <<"s", "t", "a", "s", "h", "e", "r", "-", "a", "f", "f", "i", "l", "i", "a", "t", "e", "s", "-", "u", "s", "d">>) @@
    (<<"E", "U", "R">> :> <<"s", "t", "a", "s", "h", "e", "r", "-", "a", "f", "f", "i", "l", "i", "a", "t", "e", "-", "p", "r", "o", "g", "r", "a", "m", "-", "s", "p">>) @@
    (<<"G", "B", "P">> :> <<"s", "t", "a", "s", "h", "e", "r", "-", "a", "f", "f", "i", "l", "i", "a", "t", "e", "-", "p", "r", "o", "g", "r", "a", "m">>) @@
    (<<"A", "U", "D">> :> <<"j", "g", "-", "a", "f", "f", "i", "l", "i", "a", "t", "e", "-", "p", "r", "o", "g", "r", "a", "m">>)

\* A cache kept for five minutes, as the comment beside the constant describes
CACHE_DURATION_FIVE_MINUTES == 5 * 60 * 1000

CACHE_DURATION == 0

\* normalizeFieldLabel: (label || '').trim().toLowerCase()
normalizeFieldLabel(label) == toLowerCase(trim(label))

\* countryMap of getCountryISOCode, in the order of the object literal
countryMap == <<
    <<<<"U", "n", "i", "t", "e", "d", " ", "K", "i", "n", "g", "d", "o", "m">>, <<"G", "B">>>>,
    <<<<"U", "K">>, <<"G", "B">>>>,
    <<<<"U", "n", "i", "t", "e", "d", " ", "S", "t", "a", "t", "e", "s">>, <<"U", "S">>>>,
    <<<<"U", "S", "A">>, <<"U", "S">>>>,
    <<<<"U", "S">>, <<"U", "S">>>>,
    <<<<"C", "a", "n", "a", "d", "a">>, <<"C", "A">>>>,
    <<<<"A", "u", "s", "t", "r", "a", "l", "i", "a">>, <<"A", "U">>>>,
    <<<<"G", "e", "r", "m", "a", "n", "y">>, <<"D", "E">>>>,
    <<<<"F", "r", "a", "n", "c", "e">>, <<"F", "R">>>>,
    <<<<"S", "p", "a", "i", "n">>, <<"E", "S">>>>,
    <<<<"I", "t", "a", "l", "y">>, <<"I", "T">>>>,
    <<<<"N", "e", "t", "h", "e", "r", "l", "a", "n", "d", "s">>, <<"N", "L">>>>,
    <<<<"B", "e", "l", "g", "i", "u", "m">>, <<"B", "E">>>>,
    <<<<"S", "w", "i", "t", "z", "e", "r", "l", "a", "n", "d">>, <<"C", "H">>>>,
    <<<<"A", "u", "s", "t", "r", "i", "a">>, <<"A", "T">>>>,
    <<<<"S", "w", "e", "d", "e", "n">>, <<"S", "E">>>>,
    <<<<"N", "o", "r", "w", "a", "y">>, <<"N", "O">>>>,
    <<<<"D", "e", "n", "m", "a", "r", "k">>, <<"D", "K">>>>,
    <<<<"P", "o", "l", "a", "n", "d">>, <<"P", "L">>>>,
    <<<<"P", "o", "r", "t", "u", "g", "a", "l">>, <<"P", "T">>>>,
    <<<<"I", "r", "e", "l", "a", "n", "d">>, <<"I", "E">>>>,
    <<<<"G", "r", "e", "e", "c", "e">>, <<"G", "R">>>>,
    <<<<"F", "i", "n", "l", "a", "n", "d">>, <<"F", "I">>>>,
    <<<<"C", "z", "e", "c", "h", " ", "R", "e", "p", "u", "b", "l", "i", "c">>, <<"C", "Z">>>>,
    <<<<"H", "u", "n", "g", "a", "r", "y">>, <<"H", "U">>>>,
    <<<<"R", "o", "m", "a", "n", "i", "a">>, <<"R", "O">>>>,
    <<<<"B", "u", "l", "g", "a", "r", "i", "a">>, <<"B", "G">>>>,
    <<<<"C", "r", "o", "a", "t", "i", "a">>, <<"H", "R">>>>,
    <<<<"S", "l", "o", "v", "a", "k", "i", "a">>, <<"S", "K">>>>,
    <<<<"S", "l", "o", "v", "e", "n", "i", "a">>, <<"S", "I">>>>,
    <<<<"E", "s", "t", "o", "n", "i", "a">>, <<"E", "E">>>>,
    <<<<"L", "a", "t", "v", "i", "a">>, <<"L", "V">>>>,
    <<<<"L", "i", "t", "h", "u", "a", "n", "i", "a">>, <<"L", "T">>>>,
    <<<<"L", "u", "x", "e", "m", "b", "o", "u", "r", "g">>, <<"L", "U">>>>,
    <<<<"M", "a", "l", "t", "a">>, <<"M", "T">>>>,
    <<<<"C", "y", "p", "r", "u", "s">>, <<"C", "Y">>>>
>>

\* key.toLowerCase() of every entry of countryMap
countryMapLowerKeys == [k \in 1..Len(countryMap) |-> toLowerCase(countryMap[k][1])]

\* The marker of a thrown exception in the result of a helper
Thrown == Str(<<"!", "T", "y", "p", "e", "E", "r", "r", "o", "r">>)

\* getCountryISOCode(countryName): the two-letter test comes before the trim;
\* a truthy value that is no string has no trim() and throws
getCountryISOCode(countryName) ==
    IF ~Truthy(countryName) THEN Str(<<"G", "B">>)
    ELSE IF countryName.t # "string" THEN Thrown
    ELSE IF Len(countryName.s) = 2 THEN Str(toUpperCase(countryName.s))
    ELSE LET normalized == trim(countryName.s)
             hits == {k \in 1..Len(countryMap) :
                         countryMapLowerKeys[k] = toLowerCase(normalized)}
         IN IF hits # {}
            THEN Str(countryMap[CHOOSE k \in hits : \A j \in hits : k <= j][2])
            ELSE Str(<<"G", "B">>)

\* validateParentId without its digits-only test
validateParentIdWithoutDigitTest(rawParentId) ==
    IF ~Truthy(rawParentId) THEN Null
    ELSE LET parentId == IF rawParentId.t = "string"
                         THEN trim(rawParentId.s)
                         ELSE trim(JSString(rawParentId))
         IN IF parentId = <<>> \/ parentId = <<"n", "u", "l", "l">> THEN Null
            ELSE Str(parentId)

\* validateParentId(rawParentId): the validated digit string, or Null
validateParentId(rawParentId) ==
    IF ~Truthy(rawParentId) THEN Null
    ELSE LET parentId == IF rawParentId.t = "string"
                         THEN trim(rawParentId.s)
                         ELSE trim(JSString(rawParentId))
         IN IF parentId = <<>> \/ parentId = <<"n", "u", "l", "l">> THEN Null
            ELSE IF ~IsDigitString(parentId) THEN Null
            ELSE Str(parentId)


\* The company_type values that keep the supplied company_description
DescriptionTypes == {
    <<"p", "m", "s">>, <<"v", "e", "n", "u", "e">>, <<"b", "l", "o", "g">>,
    <<"t", "o", "u", "r", "-", "o", "p", "e", "r", "a", "t", "o", "r">>, <<"t", "r", "a", "n", "s", "p", "o", "r", "t", "a", "t", "i", "o", "n", "s">>, <<"o", "t", "h", "e", "r">>}
VACATION_RENTAL == <<"v", "a", "c", "a", "t", "i", "o", "n", "-", "r", "e", "n", "t", "a", "l">>

\* The description that was sent taken whatever the company type
companyDescriptionForPreferringSupplied(company_type, company_description) ==
    IF Truthy(company_description) THEN company_description
    ELSE IF company_type = Str(VACATION_RENTAL) THEN Str(STR_SENTINEL)
    ELSE Null

\* company_description derived from company_type (buildTapfiliatePayload and
\* the copy of the same rule in finalize_affiliate); Null when not sent
companyDescriptionFor(company_type, company_description) ==
    IF company_type = Str(VACATION_RENTAL) THEN Str(STR_SENTINEL)
    ELSE IF Truthy(company_type) /\ company_type.t = "string"
            /\ company_type.s \in DescriptionTypes
    THEN (IF Truthy(company_description) THEN company_description ELSE Null)
    ELSE Null

\* companyTypeLabels: form value -> display label
companyTypeLabels ==
    (<<"s", "u", "p", "p", "l", "y">> :> <<"I", " ", "w", "a", "n", "t", " ", "t", "o", " ", "s", "t", "o", "r", "e", " ", "b", "a", "g", "s", " ", "(", "S", "u", "p", "p", "l", "y", ")">>) @@
    (<<"v", "a", "c", "a", "t", "i", "o", "n", "-", "r", "e", "n", "t", "a", "l">> :> <<"V", "a", "c", "a", "t", "i", "o", "n", " ", "R", "e", "n", "t", "a", "l", " ", "/", " ", "S", "T", "R", " ", "/", " ", "A", "i", "r", "b", "n", "b", " ", "H", "o", "s", "t">>) @@
    (<<"p", "m", "s">> :> <<"P", "M", "S">>) @@
    (<<"v", "e", "n", "u", "e">> :> <<"V", "e", "n", "u", "e">>) @@
    (<<"b", "l", "o", "g">> :> <<"B", "l", "o", "g">>) @@
    (<<"t", "o", "u", "r", "-", "o", "p", "e", "r", "a", "t", "o", "r">> :> <<"T", "o", "u", "r", " ", "O", "p", "e", "r", "a", "t", "o", "r">>) @@
    (<<"t", "r", "a", "n", "s", "p", "o", "r", "t", "a", "t", "i", "o", "n", "s">> :> <<"T", "r", "a", "n", "s", "p", "o", "r", "t", "a", "t", "i", "o", "n", "s">>) @@
    (<<"o", "t", "h", "e", "r">> :> <<"O", "t", "h", "e", "r">>)

validCommissionTypes == <<COMMISSION_10, COMMISSION_DISCOUNT, COMMISSION_CUSTOM>>


\* An object without properties
EmptyObject == [k \in {} |-> Undefined]

\* The commission value sent on as it came
commissionTypeValueUnchecked(v) == v

\* validCommissionTypes.includes(v) ? v : validCommissionTypes[0]
commissionTypeValue(v) ==
    IF v.t = "string" /\ \E k \in 1..Len(validCommissionTypes) : validCommissionTypes[k] = v.s
    THEN v
    ELSE Str(validCommissionTypes[1])

\* companyTypeLabels[company_type] || company_type
companyTypeValue(v) ==
    IF JSString(v) \in DOMAIN companyTypeLabels THEN Str(companyTypeLabels[JSString(v)])
    ELSE IF JSString(v) \in DOMAIN ObjectPrototype THEN ObjectPrototype[JSString(v)]
    ELSE v

\* buildTapfiliatePayload(affiliateData): the creation body.  The last step
\* deletes the top-level keys whose value is undefined, null or ''.
buildTapfiliatePayload(affiliateData) ==
    LET countryCode == getCountryISOCode(affiliateData.country)
        address == [address |-> Str(NA),
                    postal_code |-> Str(NA),
                    city |-> IF Truthy(affiliateData.city) THEN affiliateData.city ELSE Str(NA),
                    country |-> [code |-> countryCode]]
        company == [name |-> IF Truthy(affiliateData.company)
                             THEN affiliateData.company ELSE Str(NA)]
        companyDescription ==
            companyDescriptionFor(affiliateData.company_type, affiliateData.company_description)
        scalars == ("firstname" :> affiliateData.first_name)
                   @@ ("lastname" :> affiliateData.last_name)
                   @@ ("email" :> affiliateData.email)
                   @@ ("password" :> affiliateData.password)
                   @@ (IF Truthy(companyDescription)
                       THEN ("company_description" :> companyDescription)
                       ELSE EmptyObject)
        kept == {k \in DOMAIN scalars :
                    ~(scalars[k].t \in {"undefined", "null"} \/ scalars[k] = Str(<<>>))}
    IN [k \in kept |-> scalars[k]] @@ ("address" :> address) @@ ("company" :> company)

\* buildTapfiliatePayload throws when getCountryISOCode does
payloadThrows(affiliateData) == getCountryISOCode(affiliateData.country) = Thrown

\* The label -> key map built from the catalog response (getCustomFieldKeys):
\* a field counts when it has a title and a key or an id; a later field with
\* the same normalized title overwrites an earlier one
buildFieldMap(fields) ==
    LET usable == {k \in 1..Len(fields) :
                      fields[k].title # <<>> /\ (fields[k].key # "" \/ fields[k].id # "")}
        titles == {normalizeFieldLabel(fields[k].title) : k \in usable}
        last(t) == CHOOSE k \in usable :
                      /\ normalizeFieldLabel(fields[k].title) = t
                      /\ \A j \in usable : normalizeFieldLabel(fields[j].title) = t => j <= k
    IN [t \in titles |-> IF fields[last(t)].key # "" THEN fields[last(t)].key
                                                     ELSE fields[last(t)].id]

\* fieldKeyMap[normalizeFieldLabel(label)]; "" stands for undefined
fieldKey(map, label) ==
    IF normalizeFieldLabel(label) \in DOMAIN map THEN map[normalizeFieldLabel(label)] ELSE ""

\* The result of getCustomFieldKeys: null, or a label -> key map
NullMap == [ok |-> FALSE, map |-> EmptyObject]
SomeMap(m) == [ok |-> TRUE, map |-> m]

\* customFields[commissionKey] = commissionTypeValue, when supplied and resolved
commissionField(affiliateData, map) ==
    IF Truthy(affiliateData.commission_type) /\ fieldKey(map, LABEL_COMMISSION_TYPE) # ""
    THEN fieldKey(map, LABEL_COMMISSION_TYPE) :> commissionTypeValue(affiliateData.commission_type)
    ELSE EmptyObject

\* customFields[companyTypeKey] = companyTypeValue, when supplied and resolved
companyTypeField(affiliateData, map) ==
    IF Truthy(affiliateData.company_type) /\ fieldKey(map, LABEL_COMPANY_TYPE) # ""
    THEN fieldKey(map, LABEL_COMPANY_TYPE) :> companyTypeValue(affiliateData.company_type)
    ELSE EmptyObject

\* customFields[demoCallKey] = wantsDemoCall ? 'Yes' : 'No'
demoCallField(affiliateData, map) ==
    LET demoCallKey == IF fieldKey(map, LABEL_DEMO_CALL) # ""
                       THEN fieldKey(map, LABEL_DEMO_CALL)
                       ELSE fieldKey(map, LABEL_DEMO_CALL_ALT)
    IN IF affiliateData.wantsDemoCall.t \notin {"undefined", "null"} /\ demoCallKey # ""
       THEN demoCallKey :> (IF Truthy(affiliateData.wantsDemoCall) THEN Str(YES) ELSE Str(NO))
       ELSE EmptyObject

\* customFields of create_affiliate_only and of the legacy mode (a later
\* assignment to the same key wins)
creationCustomFields(affiliateData, fieldKeyMap) ==
    IF ~fieldKeyMap.ok THEN EmptyObject
    ELSE demoCallField(affiliateData, fieldKeyMap.map)
         @@ commissionField(affiliateData, fieldKeyMap.map)
         @@ companyTypeField(affiliateData, fieldKeyMap.map)

\* customFields of finalize_affiliate: commission type and demo call
finalizeCustomFields(affiliateData, fieldKeyMap) ==
    IF ~fieldKeyMap.ok THEN EmptyObject
    ELSE demoCallField(affiliateData, fieldKeyMap.map)
         @@ commissionField(affiliateData, fieldKeyMap.map)

\* customFields of update_custom_fields: commission type only
updateCustomFields(affiliateData, fieldKeyMap) ==
    IF ~fieldKeyMap.ok THEN EmptyObject
    ELSE commissionField(affiliateData, fieldKeyMap.map)

\* The creation body with the parent id sent along, as the log line before
\* the creation call announces
creationPayloadWithParentId(affiliateData, fieldKeyMap) ==
    LET customFields == creationCustomFields(affiliateData, fieldKeyMap)
    IN (IF Truthy(validateParentId(affiliateData.parent_id))
        THEN "parent_id" :> validateParentId(affiliateData.parent_id) ELSE EmptyObject)
       @@ (IF DOMAIN customFields # {}
           THEN "custom_fields" :> customFields ELSE EmptyObject)
       @@ buildTapfiliatePayload(affiliateData)

\* The creation body with the request's raw classification keys spread into it
creationPayloadForwardingRawKeys(affiliateData, fieldKeyMap) ==
    LET customFields == creationCustomFields(affiliateData, fieldKeyMap)
        raw == {k \in {"company_type", "commission_type", "number_of_properties"} :
                   affiliateData[k].t # "undefined"}
    IN (IF DOMAIN customFields # {}
        THEN "custom_fields" :> customFields ELSE EmptyObject)
       @@ buildTapfiliatePayload(affiliateData)
       @@ [k \in raw |-> affiliateData[k]]

\* The creation body: the built payload, plus custom_fields when any resolved
creationPayload(affiliateData, fieldKeyMap) ==
    LET customFields == creationCustomFields(affiliateData, fieldKeyMap)
    IN IF DOMAIN customFields # {}
       THEN ("custom_fields" :> customFields) @@ buildTapfiliatePayload(affiliateData)
       ELSE buildTapfiliatePayload(affiliateData)

\* updatePayload of finalize_affiliate
finalizeUpdatePayload(affiliateData, fieldKeyMap) ==
    LET customFields == finalizeCustomFields(affiliateData, fieldKeyMap)
        companyDescriptionToAdd ==
            companyDescriptionFor(affiliateData.company_type, affiliateData.company_description)
    IN (IF Truthy(affiliateData.address)
        THEN "address" :> affiliateData.address ELSE EmptyObject)
       @@ (IF Truthy(affiliateData.company)
           THEN "company" :> [copyOf |-> affiliateData.company,
                              name |-> Undefined,
                              description |-> IF Truthy(companyDescriptionToAdd)
                                              THEN companyDescriptionToAdd ELSE Undefined]
           ELSE IF Truthy(companyDescriptionToAdd)
           THEN "company" :> [copyOf |-> Undefined,
                              name |-> Str(NA),
                              description |-> companyDescriptionToAdd]
           ELSE EmptyObject)
       @@ (IF DOMAIN customFields # {}
           THEN "custom_fields" :> customFields ELSE EmptyObject)

\* PROGRAM_ID_MAP[program] || program: the property name is String(program),
\* and the read finds inherited members as well as the four own ones
mappedProgramId(program) ==
    IF JSString(program) \in DOMAIN PROGRAM_ID_MAP
    THEN Str(PROGRAM_ID_MAP[JSString(program)])
    ELSE IF JSString(program) \in DOMAIN ObjectPrototype
    THEN ObjectPrototype[JSString(program)]
    ELSE program

\* The filter without its trim(): a blank string would pass for a value
isMissingWithoutTrim(value) ==
    \/ value.t = "undefined"
    \/ value.t = "null"
    \/ value = Str(<<>>)

\* The filter of the required-field checks: undefined, null, or a string that
\* is empty after trim()
isMissing(value) ==
    \/ value.t = "undefined"
    \/ value.t = "null"
    \/ (value.t = "string" /\ trim(value.s) = <<>>)

\* The check stopping at the first missing name
missingFieldsFirstOnly(affiliateData, required) ==
    LET missing == {k \in 1..Len(required) : isMissing(affiliateData[required[k]])}
    IN IF missing = {} THEN <<>>
       ELSE <<required[CHOOSE k \in missing : \A j \in missing : k <= j]>>

\* requiredFields.filter(...): the missing names, in the order of the list
RECURSIVE missingFields(_, _)
missingFields(affiliateData, required) ==
    IF required = <<>> THEN <<>>
    ELSE (IF isMissing(affiliateData[Head(required)]) THEN <<Head(required)>> ELSE <<>>)
         \o missingFields(affiliateData, Tail(required))

requiredFieldsStageA == <<"first_name", "last_name", "email", "password">>
requiredFields == <<"first_name", "last_name", "email", "password", "city", "country", "company">>

\* names.join(', ')
RECURSIVE join(_)
join(names) ==
    IF names = <<>> THEN <<>>
    ELSE IF Len(names) = 1 THEN names
    ELSE <<Head(names), ", ">> \o join(Tail(names))

\* ------------------------------------------------ vendor calls and responses

\* What a fetch of the vendor API delivers.  kind: "pending" while awaited,
\* "throw" for a rejected fetch (network error), "response" otherwise.
\* contentType "" is an absent header.  errors is the error body: its shape
\* ("errors" array, "message", "other" JSON, "text" that is no JSON) and the
\* message texts it holds.  json is what response.json() gives: "throws"
\* (no JSON), "null", "object" or "array"; value is that JSON.
Pending ==
    [kind |-> "pending", ok |-> FALSE, status |-> 0, contentType |-> "",
     errors |-> [shape |-> "text", texts |-> <<>>], json |-> "throws", value |-> <<>>]
Throws(message) ==
    [kind |-> "throw", ok |-> FALSE, status |-> 0, contentType |-> "",
     errors |-> [shape |-> "text", texts |-> <<message>>], json |-> "throws", value |-> <<>>]
Rejected(status, contentType, shape, texts) ==
    [kind |-> "response", ok |-> FALSE, status |-> status, contentType |-> contentType,
     errors |-> [shape |-> shape, texts |-> texts], json |-> "throws", value |-> <<>>]
Accepted(status, json, value) ==
    [kind |-> "response", ok |-> TRUE, status |-> status, contentType |-> "application/json",
     errors |-> [shape |-> "text", texts |-> <<>>], json |-> json, value |-> value]

\* One outbound request: which endpoint, the id in its URL, its JSON body
Call(name, id, body) == [name |-> name, id |-> id, body |-> body, outcome |-> Pending]

\* The handler's return value: statusCode and the JSON object of the body
Response(statusCode, body) == [statusCode |-> statusCode, body |-> body]
NoResponse == Response(0, EmptyObject)

\* Where the handler stands after a synchronous stretch of code: it has
\* returned a response, or it awaits the fetch it has just issued
Returning(resp) == [pc |-> "done", issue |-> <<>>, response |-> resp]
Issuing(pcName, call) == [pc |-> pcName, issue |-> <<call>>, response |-> NoResponse]
CallingGetCustomFieldKeys == [pc |-> "fieldKeys", issue |-> <<>>, response |-> NoResponse]

MethodNotAllowed == Response(405, "error" :> <<"Method not allowed">>)
Preflight == Response(200, EmptyObject)
ApiKeyNotSet == Response(500, "error" :> <<"Server configuration error: API key not set.">>)
MissingRequiredFields(missing) ==
    Response(400, "error" :> (<<"Missing required fields: ">> \o join(missing)))
MissingAffiliateId(modeName) ==
    Response(400, "error" :> <<"Missing ", "affiliate_id", " for ", modeName, " mode">>)
MissingProgram ==
    Response(400, "error" :> <<"Missing or invalid ", "program", " selection">>)
TryAgainLater == "Something went wrong while creating your affiliate account. Please try again later."
HtmlErrorPage(status) ==
    Response(500, ("error" :> <<TryAgainLater>>) @@ ("status" :> status))
InvalidVendorResponse == Response(500, "error" :> <<"Invalid response from Tapfiliate API">>)
EnrollFailed(status) ==
    Response(IF status # 0 THEN status ELSE 500,
             ("error" :> <<"Affiliate created but failed to enroll in program.">>)
             @@ ("status" :> status))

\* The top-level catch answering without the exception's message
topLevelCatchWithoutMessage(message) ==
    Response(500, "error" :> <<"Internal server error">>)

\* The top-level catch of the handler
topLevelCatch(message) ==
    Response(500, ("error" :> <<"Internal server error">>) @@ ("message" :> <<message>>))

\* The message a thrown fetch, or a response.json() that throws, carries
thrownMessage(outcome) ==
    IF outcome.kind = "throw" THEN outcome.errors.texts[1]
    ELSE "Unexpected token < in JSON"

\* contentType && contentType.includes('text/html')
isHtml(outcome) == outcome.contentType = "text/html"

\* errorMessage of a rejected creation: the messages of errorJson.errors
\* joined, or errorJson.message, or the default; the retry text when the
\* body is no JSON
creationErrorMessage(errors) ==
    CASE errors.shape = "errors" -> join(errors.texts)
      [] errors.shape = "message" -> errors.texts
      [] errors.shape = "other" -> <<"Failed to create affiliate">>
      [] OTHER -> <<TryAgainLater>>

\* The creation refusal without the test for an HTML error page
creationRejectedWithoutHtmlTest(outcome) ==
    Response(outcome.status,
             ("error" :> creationErrorMessage(outcome.errors))
             @@ ("status" :> outcome.status))

\* The response to a creation call that was not ok
creationRejected(outcome) ==
    IF isHtml(outcome) THEN HtmlErrorPage(outcome.status)
    ELSE Response(outcome.status,
                  ("error" :> creationErrorMessage(outcome.errors))
                  @@ ("status" :> outcome.status))

createOnlySuccess(affiliate) ==
    Response(200, ("success" :> TRUE) @@ ("mode" :> MODE_CREATE)
                  @@ ("affiliate_id" :> affiliate.id))
finalizeSuccess(affiliate_id, programResult) ==
    Response(200, ("success" :> TRUE) @@ ("mode" :> MODE_FINALIZE)
                  @@ ("affiliate_id" :> affiliate_id) @@ ("program" :> programResult))
legacySuccess(affiliate, programResult) ==
    Response(200, ("success" :> TRUE) @@ ("affiliate" :> affiliate)
                  @@ ("program" :> programResult))
updateSuccess(affiliate_id) ==
    Response(200, ("success" :> TRUE) @@ ("mode" :> MODE_UPDATE)
                  @@ ("affiliate_id" :> affiliate_id))
nothingToUpdate(affiliate_id) ==
    Response(200, ("success" :> TRUE) @@ ("mode" :> MODE_UPDATE)
                  @@ ("affiliate_id" :> affiliate_id)
                  @@ ("message" :> <<"No custom fields to update">>))
\* A refused PATCH reported under a fixed status
updateRejectedAs500(status) ==
    Response(500, ("error" :> <<"Failed to update commission type">>)
                  @@ ("status" :> status))
updateRejected(status) ==
    Response(status, ("error" :> <<"Failed to update commission type">>)
                     @@ ("status" :> status))
updateThrew(message) ==
    Response(500, ("error" :> <<"Internal server error while updating custom fields">>)
                  @@ ("message" :> <<message>>))

\* ------------------------------------------------- the steps of the handler

modeOf(affiliateData) ==
    CASE affiliateData.mode = Str(MODE_CREATE) -> "create_affiliate_only"
      [] affiliateData.mode = Str(MODE_FINALIZE) -> "finalize_affiliate"
      [] affiliateData.mode = Str(MODE_UPDATE) -> "update_custom_fields"
      [] OTHER -> "legacy"

\* The parent-link block: validateParentId, then POST affiliates/{id}/parent/
\* with body {via}; without a valid parent id the success response is returned
parentStep(affiliateData, affiliateId, success) ==
    IF Truthy(validateParentId(affiliateData.parent_id))
    THEN Issuing("awaitParent",
                 Call("parent", affiliateId, "via" :> validateParentId(affiliateData.parent_id)))
    ELSE Returning(success)

\* A parent link whose failure is handed to the caller
afterParentSurfacingFailure(success, outcome) ==
    IF outcome.kind = "throw" THEN Returning(topLevelCatch(thrownMessage(outcome)))
    ELSE IF ~outcome.ok
    THEN Returning(Response(outcome.status, "error" :> <<"Failed to set parent">>))
    ELSE Returning(success)

\* A parent link that is issued again when it failed
afterParentRetrying(success, outcome) ==
    IF outcome.kind = "throw" \/ ~outcome.ok
    THEN Issuing("awaitParent", Call("parent", Null, EmptyObject))
    ELSE Returning(success)

\* After the parent-link fetch: a response that is not ok and a thrown error
\* are logged, and the success response is returned all the same
afterParent(success, outcome) == Returning(success)

\* POST programs/{programId}/affiliates/ with {affiliate: {id}, approved: null}
enrollStep(programId, affiliateId) ==
    Issuing("awaitEnroll",
            Call("enroll", programId,
                 ("affiliate" :> [id |-> affiliateId]) @@ ("approved" :> Null)))

\* PUT affiliates/{id}/meta-data/website/ with {value: metadata.website}
websiteCall(affiliateData, affiliateId) ==
    Call("website", affiliateId, "value" :> affiliateData.website)

\* --- create_affiliate_only

\* The creation given up when the catalog could not be fetched
afterFieldKeysStageARequiringCatalog(affiliateData, fieldKeyMap) ==
    IF ~fieldKeyMap.ok
    THEN Returning(Response(500, "error" :> <<"Failed to fetch custom fields">>))
    ELSE Issuing("awaitCreate", Call("create", Null, creationPayload(affiliateData, fieldKeyMap)))

\* From the resolved field map to the creation call
afterFieldKeysStageA(affiliateData, fieldKeyMap) ==
    Issuing("awaitCreate", Call("create", Null, creationPayload(affiliateData, fieldKeyMap)))

\* create_affiliate_only carrying on as the legacy mode does after creation
afterCreateStageAEnrolling(affiliateData, outcome) ==
    IF outcome.kind = "throw" THEN Returning(topLevelCatch(thrownMessage(outcome)))
    ELSE IF ~outcome.ok THEN Returning(creationRejected(outcome))
    ELSE IF outcome.json = "throws" THEN Returning(topLevelCatch(thrownMessage(outcome)))
    ELSE IF outcome.json = "null" \/ ~Truthy(outcome.value.id)
    THEN Returning(InvalidVendorResponse)
    ELSE IF Truthy(affiliateData.website)
    THEN Issuing("awaitWebsite", websiteCall(affiliateData, outcome.value.id))
    ELSE enrollStep(mappedProgramId(affiliateData.program), outcome.value.id)

\* From the creation response to the parent link or the response
afterCreateStageA(affiliateData, outcome) ==
    IF outcome.kind = "throw" THEN Returning(topLevelCatch(thrownMessage(outcome)))
    ELSE IF ~outcome.ok THEN Returning(creationRejected(outcome))
    ELSE IF outcome.json = "throws" THEN Returning(topLevelCatch(thrownMessage(outcome)))
    ELSE IF outcome.json = "null" \/ ~Truthy(outcome.value.id)
    THEN Returning(InvalidVendorResponse)
    ELSE parentStep(affiliateData, outcome.value.id, createOnlySuccess(outcome.value))

\* --- finalize_affiliate

finalizeEnrollStep(affiliateData) ==
    enrollStep(mappedProgramId(affiliateData.program), affiliateData.affiliate_id)

\* if (metadata && metadata.website): the website call, else the enrollment
finalizeWebsiteStep(affiliateData) ==
    IF Truthy(affiliateData.website)
    THEN Issuing("awaitWebsite", websiteCall(affiliateData, affiliateData.affiliate_id))
    ELSE finalizeEnrollStep(affiliateData)

\* From the resolved field map to the PATCH, when there is anything to update
afterFieldKeysFinalize(affiliateData, fieldKeyMap) ==
    IF DOMAIN finalizeUpdatePayload(affiliateData, fieldKeyMap) # {}
    THEN Issuing("awaitUpdate",
                 Call("update", affiliateData.affiliate_id,
                      finalizeUpdatePayload(affiliateData, fieldKeyMap)))
    ELSE finalizeWebsiteStep(affiliateData)

\* A PATCH whose failure ends the invocation
afterUpdateFinalizeStoppingOnFailure(affiliateData, outcome) ==
    IF outcome.kind = "throw" THEN Returning(topLevelCatch(thrownMessage(outcome)))
    ELSE IF ~outcome.ok THEN Returning(updateRejected(outcome.status))
    ELSE finalizeWebsiteStep(affiliateData)

\* The PATCH is best-effort: whatever it delivers, the flow continues
afterUpdateFinalize(affiliateData, outcome) == finalizeWebsiteStep(affiliateData)

\* The website call issued again when it failed
afterWebsiteFinalizeRetrying(affiliateData, outcome) ==
    IF outcome.kind = "throw" \/ ~outcome.ok
    THEN Issuing("awaitWebsite", websiteCall(affiliateData, affiliateData.affiliate_id))
    ELSE finalizeEnrollStep(affiliateData)

\* The website call is best-effort too
afterWebsiteFinalize(affiliateData, outcome) == finalizeEnrollStep(affiliateData)

\* The enrollment refusal without the test for an HTML error page
enrollRejectedWithoutHtmlTest(outcome) == EnrollFailed(outcome.status)

\* The response to an enrollment call that was not ok (finalize and legacy)
enrollRejected(outcome) ==
    IF isHtml(outcome) THEN HtmlErrorPage(outcome.status)
    ELSE EnrollFailed(outcome.status)

\* The parent link attempted whatever the enrollment response was
afterEnrollFinalizeLinkingAnyway(affiliateData, outcome) ==
    IF outcome.kind = "throw" THEN Returning(topLevelCatch(thrownMessage(outcome)))
    ELSE parentStep(affiliateData, affiliateData.affiliate_id,
                    finalizeSuccess(affiliateData.affiliate_id, outcome.value))

\* From the enrollment response to the parent link or the response
afterEnrollFinalize(affiliateData, outcome) ==
    IF outcome.kind = "throw" THEN Returning(topLevelCatch(thrownMessage(outcome)))
    ELSE IF ~outcome.ok THEN Returning(enrollRejected(outcome))
    ELSE IF outcome.json = "throws" THEN Returning(topLevelCatch(thrownMessage(outcome)))
    ELSE parentStep(affiliateData, affiliateData.affiliate_id,
                    finalizeSuccess(affiliateData.affiliate_id, outcome.value))

\* --- update_custom_fields

\* The PATCH sent even when no custom field was resolved
afterFieldKeysUpdateAlwaysPatching(affiliateData, fieldKeyMap) ==
    Issuing("awaitUpdate",
            Call("update", affiliateData.affiliate_id,
                 "custom_fields" :> updateCustomFields(affiliateData, fieldKeyMap)))

afterFieldKeysUpdate(affiliateData, fieldKeyMap) ==
    IF DOMAIN updateCustomFields(affiliateData, fieldKeyMap) # {}
    THEN Issuing("awaitUpdate",
                 Call("update", affiliateData.affiliate_id,
                      "custom_fields" :> updateCustomFields(affiliateData, fieldKeyMap)))
    ELSE Returning(nothingToUpdate(affiliateData.affiliate_id))

afterUpdateCustomFields(affiliateData, outcome) ==
    IF outcome.kind = "throw" THEN Returning(updateThrew(thrownMessage(outcome)))
    ELSE IF ~outcome.ok THEN Returning(updateRejected(outcome.status))
    ELSE Returning(updateSuccess(affiliateData.affiliate_id))

\* --- legacy mode

afterFieldKeysLegacy(affiliateData, fieldKeyMap) ==
    Issuing("awaitCreate", Call("create", Null, creationPayload(affiliateData, fieldKeyMap)))

legacyEnrollStep(affiliateData, affiliate) ==
    enrollStep(mappedProgramId(affiliateData.program), affiliate.id)

\* The legacy flow without the test for an affiliate id
afterCreateLegacyWithoutIdTest(affiliateData, outcome) ==
    IF outcome.kind = "throw" THEN Returning(topLevelCatch(thrownMessage(outcome)))
    ELSE IF ~outcome.ok THEN Returning(creationRejected(outcome))
    ELSE IF outcome.json = "throws" THEN Returning(topLevelCatch(thrownMessage(outcome)))
    ELSE IF Truthy(affiliateData.website)
    THEN Issuing("awaitWebsite", websiteCall(affiliateData, outcome.value.id))
    ELSE legacyEnrollStep(affiliateData, outcome.value)

afterCreateLegacy(affiliateData, outcome) ==
    IF outcome.kind = "throw" THEN Returning(topLevelCatch(thrownMessage(outcome)))
    ELSE IF ~outcome.ok THEN Returning(creationRejected(outcome))
    ELSE IF outcome.json = "throws" THEN Returning(topLevelCatch(thrownMessage(outcome)))
    ELSE IF outcome.json = "null" \/ ~Truthy(outcome.value.id)
    THEN Returning(InvalidVendorResponse)
    ELSE IF Truthy(affiliateData.website)
    THEN Issuing("awaitWebsite", websiteCall(affiliateData, outcome.value.id))
    ELSE legacyEnrollStep(affiliateData, outcome.value)

afterWebsiteLegacy(affiliateData, affiliate, outcome) ==
    legacyEnrollStep(affiliateData, affiliate)

\* The legacy parent link attempted whatever the enrollment response was
afterEnrollLegacyLinkingAnyway(affiliateData, affiliate, outcome) ==
    IF outcome.kind = "throw" THEN Returning(topLevelCatch(thrownMessage(outcome)))
    ELSE parentStep(affiliateData, affiliate.id, legacySuccess(affiliate, outcome.value))

afterEnrollLegacy(affiliateData, affiliate, outcome) ==
    IF outcome.kind = "throw" THEN Returning(topLevelCatch(thrownMessage(outcome)))
    ELSE IF ~outcome.ok THEN Returning(enrollRejected(outcome))
    ELSE IF outcome.json = "throws" THEN Returning(topLevelCatch(thrownMessage(outcome)))
    ELSE parentStep(affiliateData, affiliate.id, legacySuccess(affiliate, outcome.value))

\* --- the entry of the handler, up to the call of getCustomFieldKeys

\* JSON.parse(event.body) and the read of affiliateData.mode throw for a body
\* that is no JSON or is the JSON null
bodyThrows(event) == event.body # "object"
bodyThrowMessage(event) ==
    IF event.body = "invalid" THEN "Unexpected token in JSON"
    ELSE "Cannot read properties of null (reading 'mode')"

entryStageA(affiliateData) ==
    IF missingFields(affiliateData, requiredFieldsStageA) # <<>>
    THEN Returning(MissingRequiredFields(missingFields(affiliateData, requiredFieldsStageA)))
    ELSE IF payloadThrows(affiliateData)
    THEN Returning(topLevelCatch("countryName.trim is not a function"))
    ELSE CallingGetCustomFieldKeys

entryFinalize(affiliateData) ==
    IF ~Truthy(affiliateData.affiliate_id)
    THEN Returning(MissingAffiliateId("finalize_affiliate"))
    ELSE IF ~Truthy(mappedProgramId(affiliateData.program))
    THEN Returning(MissingProgram)
    ELSE CallingGetCustomFieldKeys

entryUpdate(affiliateData) ==
    IF ~Truthy(affiliateData.affiliate_id)
    THEN Returning(MissingAffiliateId("update_custom_fields"))
    ELSE CallingGetCustomFieldKeys

entryLegacy(affiliateData) ==
    IF ~Truthy(mappedProgramId(affiliateData.program))
    THEN Returning(MissingProgram)
    ELSE IF missingFields(affiliateData, requiredFields) # <<>>
    THEN Returning(MissingRequiredFields(missingFields(affiliateData, requiredFields)))
    ELSE IF payloadThrows(affiliateData)
    THEN Returning(topLevelCatch("countryName.trim is not a function"))
    ELSE CallingGetCustomFieldKeys

\* The entry with the API-key test ahead of the method test
handlerEntryKeyTestFirst(event, keySet) ==
    IF ~keySet THEN Returning(ApiKeyNotSet)
    ELSE IF event.httpMethod # "POST" THEN Returning(MethodNotAllowed)
    ELSE IF bodyThrows(event) THEN Returning(topLevelCatch(bodyThrowMessage(event)))
    ELSE CASE modeOf(event.data) = "create_affiliate_only" -> entryStageA(event.data)
           [] modeOf(event.data) = "finalize_affiliate" -> entryFinalize(event.data)
           [] modeOf(event.data) = "update_custom_fields" -> entryUpdate(event.data)
           [] OTHER -> entryLegacy(event.data)

\* The entry with the API-key test left out: what C1 rules out
handlerEntryWithoutKeyTest(event, keySet) ==
    IF event.httpMethod # "POST" THEN Returning(MethodNotAllowed)
    ELSE IF bodyThrows(event) THEN Returning(topLevelCatch(bodyThrowMessage(event)))
    ELSE CASE modeOf(event.data) = "create_affiliate_only" -> entryStageA(event.data)
           [] modeOf(event.data) = "finalize_affiliate" -> entryFinalize(event.data)
           [] modeOf(event.data) = "update_custom_fields" -> entryUpdate(event.data)
           [] OTHER -> entryLegacy(event.data)

\* exports.handler from its first line to its first await or return.  The
\* method test comes first, so the OPTIONS branch after it is never taken.
handlerEntry(event, keySet) ==
    IF event.httpMethod # "POST" THEN Returning(MethodNotAllowed)
    ELSE IF event.httpMethod = "OPTIONS" THEN Returning(Preflight)
    ELSE IF ~keySet THEN Returning(ApiKeyNotSet)
    ELSE IF bodyThrows(event) THEN Returning(topLevelCatch(bodyThrowMessage(event)))
    ELSE CASE modeOf(event.data) = "create_affiliate_only" -> entryStageA(event.data)
           [] modeOf(event.data) = "finalize_affiliate" -> entryFinalize(event.data)
           [] modeOf(event.data) = "update_custom_fields" -> entryUpdate(event.data)
           [] OTHER -> entryLegacy(event.data)

\* The handler after getCustomFieldKeys has returned fieldKeyMap
afterFieldKeys(affiliateData, fieldKeyMap) ==
    CASE modeOf(affiliateData) = "create_affiliate_only" ->
             afterFieldKeysStageA(affiliateData, fieldKeyMap)
      [] modeOf(affiliateData) = "finalize_affiliate" ->
             afterFieldKeysFinalize(affiliateData, fieldKeyMap)
      [] modeOf(affiliateData) = "update_custom_fields" ->
             afterFieldKeysUpdate(affiliateData, fieldKeyMap)
      [] OTHER -> afterFieldKeysLegacy(affiliateData, fieldKeyMap)

\* The cache test without the age of the cached map
cacheValidIgnoringAge(cache, timestamp, now) ==
    /\ cache.ok
    /\ timestamp # 0
    /\ fieldKey(cache.map, LABEL_COMMISSION_TYPE) # ""

\* getCustomFieldKeys: the cached map is returned only while it is younger
\* than CACHE_DURATION and holds the commission label (0 stands for the null
\* timestamp)
cacheValid(cache, timestamp, now) ==
    /\ cache.ok
    /\ timestamp # 0
    /\ now - timestamp < CACHE_DURATION
    /\ fieldKey(cache.map, LABEL_COMMISSION_TYPE) # ""

\* getCustomFieldKeys after the fetch: null for a thrown fetch, a response
\* that is not ok, or a body whose reading throws; else the map of its array
\* (an empty map when the JSON is no array)
fetchedFieldMap(outcome) ==
    IF outcome.kind = "throw" \/ ~outcome.ok \/ outcome.json = "throws" THEN NullMap
    ELSE IF outcome.json = "array" THEN SomeMap(buildFieldMap(outcome.value))
    ELSE SomeMap(EmptyObject)

\* ------------------------------------------------------------------ inputs

\* The parsed request body.  website stands for metadata.website (undefined
\* when metadata is absent).
NoData ==
    [mode |-> Undefined, first_name |-> Undefined, last_name |-> Undefined,
     email |-> Undefined, password |-> Undefined, city |-> Undefined,
     country |-> Undefined, company |-> Undefined, company_type |-> Undefined,
     company_description |-> Undefined, commission_type |-> Undefined,
     number_of_properties |-> Undefined, parent_id |-> Undefined,
     wantsDemoCall |-> Undefined, website |-> Undefined, program |-> Undefined,
     affiliate_id |-> Undefined, address |-> Undefined]

FirstName == Str(<<"A", "l">>)
LastName == Str(<<"B", "o">>)
Email == Str(<<"a", "@", "b">>)
Password == Str(<<"p", "w">>)
City == Str(<<"R", "o", "m", "e">>)
Country == Str(<<"I", "t", "a", "l", "y">>)
Company == Str(<<"A", "c", "m", "e">>)
Website == Str(<<"h", "t", "t", "p", "s", ":", "/", "/", "w">>)
Description == Str(<<"d", "e", "s", "c">>)
AffiliateId == Str(<<"7", "7">>)
Usd == Str(<<"U", "S", "D">>)

\* The values a required field is sent with: absent, null, empty, blank,
\* the number 0, or filled in
Blanks == {Undefined, Null, Str(<<>>), Str(<<" ", "\t">>)}
AbsentOr(v) == {Undefined, Str(<<" ">>), v}
SentOrNot(v) == {Undefined, v}

ParentIds ==
    {Undefined, Null, Str(<<>>), Str(<<"n", "u", "l", "l">>), Str(<<"a", "b", "c">>),
     Str(<<"4", "2">>), Str(<<" ", "4", "2", " ">>), Str(<<"4", " ", "2">>),
     Num(<<"4", "2">>), Num(<<"0">>)}
CommissionTypes == {Undefined, Str(<<>>), Str(<<"b", "o", "g", "u", "s">>), Str(COMMISSION_CUSTOM)}
CompanyTypes == {Undefined, Str(VACATION_RENTAL), Str(<<"p", "m", "s">>)}
\* The company types a description is derived from: each one the code names,
\* 'supply', and one it does not know
DescribedTypes ==
    CompanyTypes
    \cup {Str(s) : s \in DescriptionTypes}
    \cup {Str(<<"s", "u", "p", "p", "l", "y">>), Str(<<"h", "o", "t", "e", "l">>)}
DemoCalls == {Undefined, JSTrue, JSFalse}
Countries ==
    {Undefined, Str(<<"u", "k">>), Str(<<"g", "b">>), Str(<<"f", "r">>),
     Str(<<"U", "n", "i", "t", "e", "d", " ", "K", "i", "n", "g", "d", "o", "m">>),
     Str(<<"f", "r", "a", "n", "c", "e">>),
     Str(<<"A", "t", "l", "a", "n", "t", "i", "s">>),
     Num(<<"4", "4">>)}
AffiliateIds == {Undefined, Null, Str(<<>>), Num(<<"0">>), Str(<<" ">>), AffiliateId}
Programs ==
    {Undefined, Null, Str(<<>>), Usd, Str(<<"X", "Y", "Z">>),
     Str(<<"c", "o", "n", "s", "t", "r", "u", "c", "t", "o", "r">>)}

StageAData ==
    [NoData EXCEPT !.mode = Str(MODE_CREATE), !.first_name = FirstName,
                   !.last_name = LastName, !.email = Email, !.password = Password]
FinalizeData ==
    [NoData EXCEPT !.mode = Str(MODE_FINALIZE), !.affiliate_id = AffiliateId, !.program = Usd]
UpdateData ==
    [NoData EXCEPT !.mode = Str(MODE_UPDATE), !.affiliate_id = AffiliateId]
LegacyData ==
    [NoData EXCEPT !.first_name = FirstName, !.last_name = LastName, !.email = Email,
                   !.password = Password, !.city = City, !.country = Country,
                   !.company = Company, !.program = Usd]

\* Requests that vary the custom-field inputs (with and without a parent id),
\* and the parent id with the website, over a request that passes validation
FlowData(valid) ==
    {[valid EXCEPT !.commission_type = c, !.company_type = t, !.wantsDemoCall = w,
                   !.company_description = Description,
                   !.number_of_properties = Str(<<"5">>), !.parent_id = p] :
        c \in CommissionTypes, t \in CompanyTypes, w \in DemoCalls,
        p \in SentOrNot(Str(<<"4", "2">>))}
    \cup {[valid EXCEPT !.parent_id = p, !.website = s] :
             p \in ParentIds, s \in SentOrNot(Website)}

StageARequests ==
    {[StageAData EXCEPT !.first_name = f, !.last_name = l, !.email = e, !.password = p] :
        f \in Blanks \cup {Num(<<"0">>), FirstName}, l \in AbsentOr(LastName),
        e \in AbsentOr(Email), p \in AbsentOr(Password)}
    \cup FlowData(StageAData)
    \cup {[StageAData EXCEPT !.country = c] : c \in Countries}
    \cup {[StageAData EXCEPT !.company_type = t, !.company_description = d] :
             t \in DescribedTypes, d \in {Undefined, Str(<<>>), Description}}

FinalizeRequests ==
    {[FinalizeData EXCEPT !.affiliate_id = a, !.program = p] :
        a \in AffiliateIds, p \in Programs}
    \cup FlowData(FinalizeData)
    \cup {[FinalizeData EXCEPT !.address = a, !.company = c, !.company_type = t,
                               !.company_description = d] :
             a \in SentOrNot(Obj(<<"a">>)), c \in SentOrNot(Obj(<<"c">>)),
             t \in DescribedTypes, d \in SentOrNot(Description)}
    \cup {[FinalizeData EXCEPT !.address = Obj(<<"a">>), !.website = Website,
                               !.commission_type = Str(COMMISSION_DISCOUNT),
                               !.parent_id = p] :
             p \in {Undefined, Str(<<"4", "2">>), Str(<<"a", "b", "c">>)}}

UpdateRequests ==
    {[UpdateData EXCEPT !.affiliate_id = a, !.commission_type = c] :
        a \in AffiliateIds, c \in CommissionTypes}

LegacyRequests ==
    {[LegacyData EXCEPT !.first_name = f, !.last_name = l, !.email = e, !.password = p,
                        !.city = c, !.country = n, !.company = o, !.program = g] :
        f \in Blanks \cup {FirstName}, l \in SentOrNot(LastName), e \in SentOrNot(Email),
        p \in SentOrNot(Password), c \in SentOrNot(City), n \in SentOrNot(Country),
        o \in SentOrNot(Company), g \in SentOrNot(Usd)}
    \cup {[LegacyData EXCEPT !.program = g] : g \in Programs}
    \cup FlowData(LegacyData)
    \cup {[LegacyData EXCEPT !.country = c] : c \in Countries \ {Undefined}}

\* The events the handler is invoked with
Event(httpMethod, body, data) == [httpMethod |-> httpMethod, body |-> body, data |-> data]
NoEvent == Event("", "", NoData)
Events ==
    {Event("POST", "object", d) :
        d \in StageARequests \cup FinalizeRequests \cup UpdateRequests \cup LegacyRequests}
    \cup {Event("POST", b, NoData) : b \in {"invalid", "null"}}
    \cup {Event(m, "object", d) :
             m \in {"OPTIONS", "GET"}, d \in {NoData, StageAData, LegacyData}}
    \cup {Event(m, "invalid", NoData) : m \in {"OPTIONS", "GET"}}

\* The catalogs the vendor answers the custom-field GET with
CatalogFull == <<
    [title |-> <<"C", "o", "m", "p", "a", "n", "y", " ", "t", "y", "p", "e">>,
     key |-> "company_type", id |-> "11"],
    [title |-> <<" ", "C", "o", "m", "m", "i", "s", "s", "i", "o", "n", " ", "T", "Y", "P", "E", " ">>,
     key |-> "", id |-> "12"],
    [title |-> <<"F", "r", "e", "e", " ", "D", "E", "M", "O", " ", "c", "a", "l", "l", "?">>,
     key |-> "free_demo_call", id |-> "13"] >>
CatalogNoCommission == <<
    [title |-> <<"C", "o", "m", "p", "a", "n", "y", " ", "t", "y", "p", "e">>,
     key |-> "company_type", id |-> "11"],
    [title |-> <<>>, key |-> "untitled", id |-> "14"],
    [title |-> <<"U", "n", "l", "a", "b", "e", "l", "l", "e", "d">>, key |-> "", id |-> ""],
    [title |-> <<"D", "o", " ", "y", "o", "u", " ", "w", "a", "n", "t", " ", "a", " ", "F", "R", "E", "E", " ", "D", "E", "M", "O", " ", "c", "a", "l", "l", "?">>,
     key |-> "demo_call", id |-> "15"] >>

NetworkError == Throws("fetch failed")
NoAffiliate == [id |-> Undefined]

CatalogOutcomes ==
    {NetworkError,
     Rejected(500, "text/html", "text", <<>>),
     Accepted(200, "throws", <<>>),
     Accepted(200, "object", <<>>),
     Accepted(200, "array", CatalogFull),
     Accepted(200, "array", CatalogNoCommission)}
CreateOutcomes ==
    {NetworkError,
     Rejected(422, "application/json", "errors", <<"Email already in use", "Password too short">>),
     Rejected(400, "application/json", "message", <<"Bad request">>),
     Rejected(409, "application/json", "other", <<>>),
     Rejected(502, "text/html", "text", <<>>),
     Rejected(503, "", "text", <<>>),
     Accepted(201, "object", [id |-> Num(<<"1", "2", "3">>)]),
     Accepted(200, "object", NoAffiliate),
     Accepted(200, "null", NoAffiliate),
     Accepted(200, "throws", NoAffiliate)}
UpdateOutcomes ==
    {NetworkError,
     Rejected(404, "application/json", "message", <<"Not found">>),
     Accepted(200, "object", <<>>)}
WebsiteOutcomes ==
    {NetworkError,
     Rejected(400, "application/json", "message", <<"Bad request">>),
     Accepted(200, "object", <<>>)}
EnrollOutcomes ==
    {NetworkError,
     Rejected(404, "application/json", "message", <<"Program not found">>),
     Rejected(502, "text/html", "text", <<>>),
     Accepted(201, "object", [approved |-> Null]),
     Accepted(200, "throws", [approved |-> Null])}
ParentOutcomes ==
    {NetworkError,
     Rejected(404, "application/json", "message", <<"Parent not found">>),
     Accepted(200, "object", <<>>)}

\* The latest value Date.now() takes
MaxClock == 2

\* The handler runs in slots: Lambda gives an execution environment one event
\* at a time, so Spec runs slot 1 alone
Slots == {1, 2}

\* ------------------------------------------------------------------- state

VARIABLES
    apiKeySet,          \* process.env.TAPFILIATE_API_KEY is set
    customFieldsCache,  \* the module-level cache: NullMap, or the cached map
    cacheTimestamp,     \* the module-level timestamp; 0 stands for null
    clock,              \* the last value Date.now() returned
    pc,                 \* per slot: where the invocation stands
    event,              \* per slot: the event of the invocation
    now,                \* per slot: `now` of its getCustomFieldKeys call
    calls,              \* per slot: the vendor calls issued, with their outcomes
    response            \* per slot: the handler's return value

vars == <<apiKeySet, customFieldsCache, cacheTimestamp, clock, pc, event, now, calls, response>>

shared == <<apiKeySet, customFieldsCache, cacheTimestamp, clock>>

Init ==
    /\ apiKeySet \in BOOLEAN
    /\ customFieldsCache = NullMap
    /\ cacheTimestamp = 0
    /\ clock = 1
    /\ pc = [i \in Slots |-> "idle"]
    /\ event = [i \in Slots |-> NoEvent]
    /\ now = [i \in Slots |-> 0]
    /\ calls = [i \in Slots |-> <<>>]
    /\ response = [i \in Slots |-> NoResponse]

\* The call named `name` in a call log, and its outcome
callNamed(cs, name) == cs[CHOOSE k \in 1..Len(cs) : cs[k].name = name]
hasCall(cs, name) == \E k \in 1..Len(cs) : cs[k].name = name

\* The log with its last (awaited) call settled
settled(cs, outcome) == [cs EXCEPT ![Len(cs)].outcome = outcome]

\* Slot i moves on by `step`, its call log so far being cs
Proceed(i, cs, step) ==
    /\ pc' = [pc EXCEPT ![i] = step.pc]
    /\ calls' = [calls EXCEPT ![i] = cs \o step.issue]
    /\ response' = [response EXCEPT ![i] = step.response]

\* The handler, invoked with event e, runs to its first await or return.
\* In getCustomFieldKeys, Date.now() gives a time not before the last one read.
Handle(i, e) ==
    /\ event' = [event EXCEPT ![i] = e]
    /\ IF handlerEntry(e, apiKeySet) = CallingGetCustomFieldKeys
       THEN \E t \in clock..(IF clock < MaxClock THEN clock + 1 ELSE clock) :
               /\ clock' = t
               /\ now' = [now EXCEPT ![i] = t]
               /\ IF cacheValid(customFieldsCache, cacheTimestamp, t)
                  THEN Proceed(i, <<>>, afterFieldKeys(e.data, customFieldsCache))
                  ELSE Proceed(i, <<>>, Issuing("awaitCatalog", Call("catalog", Null, EmptyObject)))
       ELSE /\ Proceed(i, <<>>, handlerEntry(e, apiKeySet))
            /\ UNCHANGED <<clock, now>>
    /\ UNCHANGED <<apiKeySet, customFieldsCache, cacheTimestamp>>

Invoke(i) == pc[i] = "idle" /\ \E e \in Events : Handle(i, e)

\* A fetched map merged into the cached one instead of replacing it
cacheAfterFetchMerging(cache, fieldMap) ==
    IF fieldMap.ok /\ cache.ok THEN SomeMap(fieldMap.map @@ cache.map)
    ELSE IF fieldMap.ok THEN fieldMap
    ELSE cache

\* customFieldsCache = fieldMap, reached by a fetch that succeeded only
cacheAfterFetch(cache, fieldMap) == IF fieldMap.ok THEN fieldMap ELSE cache

\* The timestamp written on every fetch, failed ones included
timestampAfterEveryFetch(timestamp, fetchedAt, fieldMap) == fetchedAt

\* cacheTimestamp = now, next to the cache assignment
timestampAfterFetch(timestamp, fetchedAt, fieldMap) ==
    IF fieldMap.ok THEN fetchedAt ELSE timestamp

\* The catalog fetch of getCustomFieldKeys settles: a fetched map replaces
\* the cache and its timestamp, a failure leaves both; the handler goes on
CatalogSettles(i, outcome) ==
    /\ customFieldsCache' = cacheAfterFetch(customFieldsCache, fetchedFieldMap(outcome))
    /\ cacheTimestamp' = timestampAfterFetch(cacheTimestamp, now[i], fetchedFieldMap(outcome))
    /\ Proceed(i, settled(calls[i], outcome),
               afterFieldKeys(event[i].data, fetchedFieldMap(outcome)))
    /\ UNCHANGED <<apiKeySet, clock, event, now>>

CatalogReturns(i) == pc[i] = "awaitCatalog" /\ \E o \in CatalogOutcomes : CatalogSettles(i, o)

\* The creation fetch settles
CreateSettles(i, outcome) ==
    /\ Proceed(i, settled(calls[i], outcome),
               IF modeOf(event[i].data) = "create_affiliate_only"
               THEN afterCreateStageA(event[i].data, outcome)
               ELSE afterCreateLegacy(event[i].data, outcome))
    /\ UNCHANGED <<shared, event, now>>

CreateReturns(i) == pc[i] = "awaitCreate" /\ \E o \in CreateOutcomes : CreateSettles(i, o)

\* The PATCH settles
UpdateSettles(i, outcome) ==
    /\ Proceed(i, settled(calls[i], outcome),
               IF modeOf(event[i].data) = "finalize_affiliate"
               THEN afterUpdateFinalize(event[i].data, outcome)
               ELSE afterUpdateCustomFields(event[i].data, outcome))
    /\ UNCHANGED <<shared, event, now>>

UpdateReturns(i) == pc[i] = "awaitUpdate" /\ \E o \in UpdateOutcomes : UpdateSettles(i, o)

\* The website meta-data PUT settles
WebsiteSettles(i, outcome) ==
    /\ Proceed(i, settled(calls[i], outcome),
               IF modeOf(event[i].data) = "finalize_affiliate"
               THEN afterWebsiteFinalize(event[i].data, outcome)
               ELSE afterWebsiteLegacy(event[i].data,
                                       callNamed(calls[i], "create").outcome.value, outcome))
    /\ UNCHANGED <<shared, event, now>>

WebsiteReturns(i) == pc[i] = "awaitWebsite" /\ \E o \in WebsiteOutcomes : WebsiteSettles(i, o)

\* The enrollment fetch settles
EnrollSettles(i, outcome) ==
    /\ Proceed(i, settled(calls[i], outcome),
               IF modeOf(event[i].data) = "finalize_affiliate"
               THEN afterEnrollFinalize(event[i].data, outcome)
               ELSE afterEnrollLegacy(event[i].data,
                                      callNamed(calls[i], "create").outcome.value, outcome))
    /\ UNCHANGED <<shared, event, now>>

EnrollReturns(i) == pc[i] = "awaitEnroll" /\ \E o \in EnrollOutcomes : EnrollSettles(i, o)

\* The success response the handler holds when it issues the parent link
successOf(affiliateData, cs) ==
    CASE modeOf(affiliateData) = "create_affiliate_only" ->
             createOnlySuccess(callNamed(cs, "create").outcome.value)
      [] modeOf(affiliateData) = "finalize_affiliate" ->
             finalizeSuccess(affiliateData.affiliate_id, callNamed(cs, "enroll").outcome.value)
      [] OTHER ->
             legacySuccess(callNamed(cs, "create").outcome.value,
                           callNamed(cs, "enroll").outcome.value)

\* The parent-link fetch settles
ParentSettles(i, outcome) ==
    /\ Proceed(i, settled(calls[i], outcome),
               afterParent(successOf(event[i].data, calls[i]), outcome))
    /\ UNCHANGED <<shared, event, now>>

ParentReturns(i) == pc[i] = "awaitParent" /\ \E o \in ParentOutcomes : ParentSettles(i, o)

\* The response is delivered; the slot takes the next event
Complete(i) ==
    /\ pc[i] = "done"
    /\ pc' = [pc EXCEPT ![i] = "idle"]
    /\ event' = [event EXCEPT ![i] = NoEvent]
    /\ now' = [now EXCEPT ![i] = 0]
    /\ calls' = [calls EXCEPT ![i] = <<>>]
    /\ response' = [response EXCEPT ![i] = NoResponse]
    /\ UNCHANGED shared

Step(i) ==
    \/ Invoke(i)
    \/ CatalogReturns(i)
    \/ CreateReturns(i)
    \/ UpdateReturns(i)
    \/ WebsiteReturns(i)
    \/ EnrollReturns(i)
    \/ ParentReturns(i)
    \/ Complete(i)

Next == Step(1)

Spec == Init /\ [][Next]_vars

\* One request per mode, each with everything its mode makes a call for, and
\* two requests that are refused before any call
EachModeEvents ==
    {Event("POST", "object", [UpdateData EXCEPT !.commission_type = Str(COMMISSION_CUSTOM)]),
     Event("POST", "object", [StageAData EXCEPT !.parent_id = Str(<<"4", "2">>)]),
     Event("POST", "object",
           [FinalizeData EXCEPT !.address = Obj(<<"a">>), !.website = Website,
                                !.parent_id = Str(<<"4", "2">>)]),
     Event("POST", "object",
           [LegacyData EXCEPT !.website = Website, !.parent_id = Str(<<"4", "2">>)]),
     Event("POST", "invalid", NoData),
     Event("GET", "object", NoData)}

InvokeEachMode(i) == pc[i] = "idle" /\ \E e \in EachModeEvents : Handle(i, e)

NextEachMode ==
    \/ InvokeEachMode(1)
    \/ CatalogReturns(1)
    \/ CreateReturns(1)
    \/ UpdateReturns(1)
    \/ WebsiteReturns(1)
    \/ EnrollReturns(1)
    \/ ParentReturns(1)
    \/ Complete(1)

\* Every vendor call that is awaited returns or throws in the end (a handler
\* awaits one call at a time, so one of the steps below is enabled at most)
VendorAnswers ==
    WF_vars(\/ CatalogReturns(1) \/ CreateReturns(1) \/ UpdateReturns(1)
            \/ WebsiteReturns(1) \/ EnrollReturns(1) \/ ParentReturns(1))

SpecVendorAnswers == Init /\ [][NextEachMode]_vars /\ VendorAnswers

\* Invocations that overlap in one process: each handler runs up to its next
\* await, where another invocation's step may come in between.  The requests
\* are one per mode that has its own block, none with a website, so that no
\* website call is made.
ConcurrentEvents ==
    {Event("POST", "object", [UpdateData EXCEPT !.commission_type = Str(COMMISSION_CUSTOM)]),
     Event("POST", "object", [StageAData EXCEPT !.parent_id = Str(<<"4", "2">>)]),
     Event("POST", "object", FinalizeData)}

InvokeConcurrently(i) == pc[i] = "idle" /\ \E e \in ConcurrentEvents : Handle(i, e)

StepConcurrently(i) ==
    \/ InvokeConcurrently(i)
    \/ CatalogReturns(i)
    \/ CreateReturns(i)
    \/ UpdateReturns(i)
    \/ EnrollReturns(i)
    \/ ParentReturns(i)
    \/ Complete(i)

NextConcurrent == \E i \in Slots : StepConcurrently(i)

SpecConcurrent == Init /\ [][NextConcurrent]_vars

\* ------------------------------------------------------------------ claims

\* An invocation that has been started and not yet handed back
started(i) == pc[i] # "idle"
\* An invocation whose handler has returned its response
returned(i) == pc[i] = "done"
\* The POST requests of a mode whose body parsed to an object
postOf(i, modeName) ==
    /\ started(i)
    /\ event[i].httpMethod = "POST"
    /\ event[i].body = "object"
    /\ modeOf(event[i].data) = modeName

\* C1: when the API key is not configured, every POST request, whatever its
\* mode and body, is answered at once with status 500 and the error
\* 'Server configuration error: API key not set.', and no vendor call is made.
C1_MissingKeyStopsEveryPost ==
    \A i \in Slots :
        (started(i) /\ event[i].httpMethod = "POST" /\ ~apiKeySet)
        => /\ returned(i)
           /\ response[i].statusCode = 500
           /\ response[i].body
                = ("error" :> <<"Server configuration error: API key not set.">>)
           /\ calls[i] = <<>>

\* C1's case: a finalize request with a valid body arrives while the key is unset
C1_Witness ==
    \E i \in Slots :
        /\ ~apiKeySet
        /\ postOf(i, "finalize_affiliate")
        /\ Truthy(event[i].data.affiliate_id)
        /\ returned(i)
        /\ response[i].statusCode = 500

\* The names of request fields, as they appear in the error messages
FieldNames ==
    {"first_name", "last_name", "email", "password", "city", "country", "company",
     "program", "affiliate_id"}
\* A field the request lacks: absent, null, or a string of white space only
Lacks(value) ==
    \/ value = Undefined
    \/ value = Null
    \/ (value.t = "string" /\ \A k \in 1..Len(value.s) : value.s[k] \in WhiteSpace)
\* The fields of a list that a request lacks, in the order of the list
lacking(affiliateData, names) == SelectSeq(names, LAMBDA f : Lacks(affiliateData[f]))
\* The field names an error message mentions, in order
namesIn(error) == SelectSeq(error, LAMBDA x : x \in FieldNames)
elements(s) == {s[k] : k \in 1..Len(s)}
\* An invocation with the key set whose POST body parsed, in the given mode
validated(i, modeName) == apiKeySet /\ postOf(i, modeName)
\* The invocation was refused with 400 naming exactly `names`, with no vendor call
refusedNaming(i, names) ==
    /\ returned(i)
    /\ response[i].statusCode = 400
    /\ namesIn(response[i].body["error"]) = names
    /\ calls[i] = <<>>

\* C2 as stated: a request lacking mode-required fields is answered 400 with
\* a message that names exactly the lacking fields, and no vendor call is
\* made; this fails where a mode reports its first failing test only
C2_AsStated ==
    \A i \in Slots :
        LET d == event[i].data
            required ==
                CASE modeOf(d) = "create_affiliate_only" -> requiredFieldsStageA
                  [] modeOf(d) = "finalize_affiliate" -> <<"affiliate_id", "program">>
                  [] modeOf(d) = "update_custom_fields" -> <<"affiliate_id">>
                  [] OTHER -> <<"program">> \o requiredFields
        IN (validated(i, modeOf(d)) /\ lacking(d, required) # <<>>)
           => /\ returned(i)
              /\ response[i].statusCode = 400
              /\ elements(namesIn(response[i].body["error"]))
                   = elements(lacking(d, required))
              /\ calls[i] = <<>>

\* C2: with the key set, a POST request is refused with status 400 and no
\* vendor call (a) in create_affiliate_only when any of first_name, last_name,
\* email, password is absent, null or blank: the message names exactly those,
\* in order; (b) in finalize_affiliate and update_custom_fields when
\* affiliate_id is falsy: the message names affiliate_id alone; (c) in
\* finalize_affiliate and legacy mode when program is falsy (affiliate_id being
\* present in finalize): the message names program alone; (d) in legacy mode
\* with a program when any of the seven profile fields is absent, null or
\* blank: the message names exactly those, in order.
C2_MissingFieldsRefused ==
    \A i \in Slots :
        LET d == event[i].data
        IN /\ (validated(i, "create_affiliate_only")
                /\ lacking(d, requiredFieldsStageA) # <<>>)
               => refusedNaming(i, lacking(d, requiredFieldsStageA))
           /\ ((validated(i, "finalize_affiliate") \/ validated(i, "update_custom_fields"))
                /\ ~Truthy(d.affiliate_id))
               => refusedNaming(i, <<"affiliate_id">>)
           /\ (validated(i, "finalize_affiliate")
                /\ Truthy(d.affiliate_id) /\ ~Truthy(d.program))
               => refusedNaming(i, <<"program">>)
           /\ (validated(i, "legacy") /\ ~Truthy(d.program))
               => refusedNaming(i, <<"program">>)
           /\ (validated(i, "legacy") /\ Truthy(d.program)
                /\ lacking(d, requiredFields) # <<>>)
               => refusedNaming(i, lacking(d, requiredFields))

\* C2's case: a legacy request with a program that lacks three profile
\* fields, one of them sent as a blank string, has been refused
C2_Witness ==
    \E i \in Slots :
        /\ validated(i, "legacy")
        /\ Truthy(event[i].data.program)
        /\ event[i].data.first_name = Str(<<" ", "\t">>)
        /\ Len(lacking(event[i].data, requiredFields)) = 3
        /\ refusedNaming(i, lacking(event[i].data, requiredFields))

\* The calls of a log that go to the endpoint `name`
callsTo(cs, name) == {k \in 1..Len(cs) : cs[k].name = name}
\* The three modes that may link a parent
linksParent(i) ==
    \/ validated(i, "create_affiliate_only")
    \/ validated(i, "finalize_affiliate")
    \/ validated(i, "legacy")

core(s) ==
    LET inner == {k \in 1..Len(s) : s[k] \notin WhiteSpace}
    IN IF inner = {} THEN <<>>
       ELSE SubSeq(s, CHOOSE k \in inner : \A j \in inner : k <= j,
                      CHOOSE k \in inner : \A j \in inner : j <= k)
\* A non-empty string of decimal digits
digitsOnly(s) ==
    /\ s # <<>>
    /\ \A k \in 1..Len(s) : s[k] \in {"0", "1", "2", "3", "4", "5", "6", "7", "8", "9"}
\* The parent id as text: a string as it is, a number by its decimal digits
textOf(value) == IF value.t \in {"string", "number"} THEN core(value.s) ELSE <<>>
\* The step before the parent link succeeded: a 2xx response whose JSON was
\* read, which for a creation holds an affiliate id
requiredStepSucceeded(i) ==
    LET required == IF modeOf(event[i].data) = "create_affiliate_only"
                    THEN "create" ELSE "enroll"
    IN /\ callsTo(calls[i], required) # {}
       /\ \A k \in callsTo(calls[i], required) :
             /\ calls[i][k].outcome.kind = "response"
             /\ calls[i][k].outcome.ok
             /\ calls[i][k].outcome.json # "throws"
             /\ required = "create" =>
                   (calls[i][k].outcome.json = "object"
                    /\ Truthy(calls[i][k].outcome.value.id))
\* Exactly one parent-link call, carrying via = id, or none at all
linkedOnceVia(i, id) ==
    /\ Cardinality(callsTo(calls[i], "parent")) = 1
    /\ \A k \in callsTo(calls[i], "parent") : calls[i][k].body = ("via" :> Str(id))
notLinked(i) == callsTo(calls[i], "parent") = {}

\* C4 as stated, a number being read by its decimal digits: after a successful
\* required step the parent link is called iff the trimmed parent_id is a
\* non-empty digit string; this fails for the number 0
C4_AsStated ==
    \A i \in Slots :
        (linksParent(i) /\ returned(i) /\ requiredStepSucceeded(i))
        => IF digitsOnly(textOf(event[i].data.parent_id))
           THEN linkedOnceVia(i, textOf(event[i].data.parent_id))
           ELSE notLinked(i)

\* C4: after a successful required step (creation in create_affiliate_only,
\* enrollment in finalize and legacy) the parent link is called iff parent_id
\* is truthy and its text (a number's decimal digits), trimmed, is a non-empty
\* string of decimal digits; it is then called exactly once with via set to
\* that trimmed text, and in either case the response is the 200 success.
C4_ParentLinkIffDigits ==
    \A i \in Slots :
        (linksParent(i) /\ returned(i) /\ requiredStepSucceeded(i))
        => /\ IF Truthy(event[i].data.parent_id)
                 /\ digitsOnly(textOf(event[i].data.parent_id))
              THEN linkedOnceVia(i, textOf(event[i].data.parent_id))
              ELSE notLinked(i)
           /\ response[i].statusCode = 200
           /\ response[i].body["success"] = TRUE

\* C4's case: a create_affiliate_only request with parent_id ' 42 ' has been
\* answered after one parent-link call with via = '42'
C4_Witness ==
    \E i \in Slots :
        /\ validated(i, "create_affiliate_only")
        /\ returned(i)
        /\ requiredStepSucceeded(i)
        /\ event[i].data.parent_id = Str(<<" ", "4", "2", " ">>)
        /\ linkedOnceVia(i, <<"4", "2">>)

\* The 200 success response of a mode, from the request and the JSON of the
\* creation and enrollment responses
expectedSuccess(i) ==
    LET d == event[i].data
        created == calls[i][CHOOSE k \in callsTo(calls[i], "create") : TRUE].outcome.value
        enrolled == calls[i][CHOOSE k \in callsTo(calls[i], "enroll") : TRUE].outcome.value
    IN CASE modeOf(d) = "create_affiliate_only" ->
                [statusCode |-> 200,
                 body |-> ("success" :> TRUE) @@ ("mode" :> MODE_CREATE)
                          @@ ("affiliate_id" :> created.id)]
         [] modeOf(d) = "finalize_affiliate" ->
                [statusCode |-> 200,
                 body |-> ("success" :> TRUE) @@ ("mode" :> MODE_FINALIZE)
                          @@ ("affiliate_id" :> d.affiliate_id)
                          @@ ("program" :> enrolled)]
         [] OTHER ->
                [statusCode |-> 200,
                 body |-> ("success" :> TRUE) @@ ("affiliate" :> created)
                          @@ ("program" :> enrolled)]

\* C5: in create_affiliate_only, finalize_affiliate and legacy mode, once the
\* parent-link call has been made the response is the 200 success of the
\* mode, whatever that call delivered (2xx, non-2xx or a thrown error).
C5_ParentOutcomeIgnored ==
    \A i \in Slots :
        (linksParent(i) /\ returned(i) /\ ~notLinked(i))
        => response[i] = expectedSuccess(i)

\* C5's case: the parent-link call of a finalize request threw, and the
\* response is the 200 success
C5_Witness ==
    \E i \in Slots :
        /\ validated(i, "finalize_affiliate")
        /\ returned(i)
        /\ \E k \in callsTo(calls[i], "parent") : calls[i][k].outcome.kind = "throw"
        /\ response[i].statusCode = 200

\* C6: a parent-link call is always the last call of its invocation and
\* comes right after the creation call (create_affiliate_only) or the
\* enrollment call (finalize, legacy), which by then has returned success,
\* with an affiliate id in the creation's case; it goes to that affiliate.
C6_ParentLinkAfterSuccess ==
    \A i \in Slots : \A k \in callsTo(calls[i], "parent") :
        /\ k = Len(calls[i])
        /\ k > 1
        /\ calls[i][k - 1].name
             = (IF modeOf(event[i].data) = "create_affiliate_only"
                THEN "create" ELSE "enroll")
        /\ requiredStepSucceeded(i)
        /\ calls[i][k].id
             = (IF modeOf(event[i].data) = "finalize_affiliate"
                THEN event[i].data.affiliate_id
                ELSE calls[i][CHOOSE c \in callsTo(calls[i], "create") : TRUE].outcome.value.id)

\* C6's case: a legacy invocation awaits the parent link it has issued
\* after its enrollment call returned
C6_Witness ==
    \E i \in Slots :
        /\ validated(i, "legacy")
        /\ pc[i] = "awaitParent"
        /\ callsTo(calls[i], "enroll") # {}
        /\ callsTo(calls[i], "parent") # {}

\* The outcome of the one call an invocation made to the endpoint `name`
outcomeOf(i, name) == calls[i][CHOOSE k \in callsTo(calls[i], name) : TRUE].outcome
\* A finalize request past its validation
finalizing(i) ==
    /\ validated(i, "finalize_affiliate")
    /\ Truthy(event[i].data.affiliate_id)
    /\ Truthy(event[i].data.program)
\* The enrollment call of a returned finalize invocation got a non-success response
enrollmentRefused(i) ==
    /\ finalizing(i)
    /\ returned(i)
    /\ callsTo(calls[i], "enroll") # {}
    /\ outcomeOf(i, "enroll").kind = "response"
    /\ ~outcomeOf(i, "enroll").ok
\* The response that reports an affiliate that exists without being enrolled
notEnrolledResponse(status) ==
    [statusCode |-> status,
     body |-> ("error" :> <<"Affiliate created but failed to enroll in program.">>)
              @@ ("status" :> status)]
\* The response that reports nothing but a failure
tryAgainResponse(status) ==
    [statusCode |-> 500,
     body |-> ("error" :> <<"Something went wrong while creating your affiliate account. Please try again later.">>)
              @@ ("status" :> status)]
\* Nothing follows the enrollment call, and the PATCH before it is left alone
enrollmentEndsTheCalls(i) ==
    /\ calls[i][Len(calls[i])].name = "enroll"
    /\ Cardinality(callsTo(calls[i], "update")) <= 1
    /\ \A k \in 1..Len(calls[i]) :
          calls[i][k].name \in {"catalog", "update", "website", "enroll"}

\* C7 as stated: whenever the enrollment call of finalize_affiliate gets a
\* non-success response, whatever its content type, the response reports that
\* the affiliate exists but was not enrolled; this fails for an HTML error page
C7_AsStated ==
    \A i \in Slots :
        enrollmentRefused(i)
        => /\ response[i] = notEnrolledResponse(outcomeOf(i, "enroll").status)
           /\ enrollmentEndsTheCalls(i)

\* C7: when the enrollment call of finalize_affiliate gets a non-success
\* response, the handler answers with the vendor's status and 'Affiliate
\* created but failed to enroll in program.' unless the content type is
\* text/html, in which case it answers the generic 500 'Something went wrong
\* ...' with the vendor's status in the body; in both cases no further call is
\* made and the response says nothing of the PATCH made earlier.
C7_EnrollmentRefusalReported ==
    \A i \in Slots :
        enrollmentRefused(i)
        => /\ response[i]
                = (IF outcomeOf(i, "enroll").contentType = "text/html"
                   THEN tryAgainResponse(outcomeOf(i, "enroll").status)
                   ELSE notEnrolledResponse(outcomeOf(i, "enroll").status))
           /\ enrollmentEndsTheCalls(i)

\* C7's case: the PATCH of a finalize request succeeded, the enrollment was
\* refused with a JSON 404, and the response is the 404 'not enrolled' error
C7_Witness ==
    \E i \in Slots :
        /\ enrollmentRefused(i)
        /\ callsTo(calls[i], "update") # {}
        /\ outcomeOf(i, "update").ok
        /\ outcomeOf(i, "enroll").status = 404
        /\ response[i] = notEnrolledResponse(404)

\* The response of finalize_affiliate as the enrollment outcome alone decides it
responseToEnrollment(affiliateData, outcome) ==
    IF outcome.kind = "throw" \/ (outcome.ok /\ outcome.json = "throws")
    THEN [statusCode |-> 500,
          body |-> ("error" :> <<"Internal server error">>)
                   @@ ("message" :> <<IF outcome.kind = "throw"
                                      THEN outcome.errors.texts[1]
                                      ELSE "Unexpected token < in JSON">>)]
    ELSE IF ~outcome.ok
    THEN (IF outcome.contentType = "text/html"
          THEN tryAgainResponse(outcome.status)
          ELSE notEnrolledResponse(outcome.status))
    ELSE [statusCode |-> 200,
          body |-> ("success" :> TRUE) @@ ("mode" :> MODE_FINALIZE)
                   @@ ("affiliate_id" :> affiliateData.affiliate_id)
                   @@ ("program" :> outcome.value)]

\* C8: a finalize_affiliate invocation past its validation never returns
\* before its enrollment call: whatever the catalog fetch, the PATCH and the
\* website PUT delivered, the enrollment POST is issued once, after them, and
\* the response is the one the enrollment outcome decides.
C8_OnlyEnrollmentDecides ==
    \A i \in Slots :
        (finalizing(i) /\ returned(i))
        => /\ Cardinality(callsTo(calls[i], "enroll")) = 1
           /\ \A k \in callsTo(calls[i], "catalog") \cup callsTo(calls[i], "update")
                       \cup callsTo(calls[i], "website") :
                 \A e \in callsTo(calls[i], "enroll") : k < e
           /\ response[i] = responseToEnrollment(event[i].data, outcomeOf(i, "enroll"))

\* C8's case: the catalog fetch threw, the PATCH was refused and the website
\* PUT threw, and the finalize request was enrolled and answered 200
C8_Witness ==
    \E i \in Slots :
        /\ finalizing(i)
        /\ returned(i)
        /\ outcomeOf(i, "catalog").kind = "throw"
        /\ callsTo(calls[i], "update") # {}
        /\ ~outcomeOf(i, "update").ok
        /\ callsTo(calls[i], "website") # {}
        /\ outcomeOf(i, "website").kind = "throw"
        /\ response[i].statusCode = 200

\* An update_custom_fields request past its validation
updating(i) ==
    /\ validated(i, "update_custom_fields")
    /\ Truthy(event[i].data.affiliate_id)
\* The catalog response holds a usable field titled 'Commission type'
listsCommission(outcome) ==
    /\ outcome.kind = "response"
    /\ outcome.ok
    /\ outcome.json = "array"
    /\ \E k \in 1..Len(outcome.value) :
          /\ toLowerCase(core(outcome.value[k].title)) = toLowerCase(LABEL_COMMISSION_TYPE)
          /\ (outcome.value[k].key # "" \/ outcome.value[k].id # "")
\* No commission value was sent, or the label was not resolved by the fetch
nothingToSet(i) ==
    \/ ~Truthy(event[i].data.commission_type)
    \/ (callsTo(calls[i], "catalog") # {} /\ ~listsCommission(outcomeOf(i, "catalog")))

\* C9: an update_custom_fields invocation with an affiliate_id and either no
\* commission_type value or no 'Commission type' field resolved (the catalog
\* lacks it, or its fetch failed) returns 200 with success, mode, affiliate_id
\* and the message 'No custom fields to update', and makes no PATCH call.
C9_NothingToUpdate ==
    \A i \in Slots :
        (updating(i) /\ returned(i) /\ nothingToSet(i))
        => /\ response[i]
                = [statusCode |-> 200,
                   body |-> ("success" :> TRUE) @@ ("mode" :> MODE_UPDATE)
                            @@ ("affiliate_id" :> event[i].data.affiliate_id)
                            @@ ("message" :> <<"No custom fields to update">>)]
           /\ callsTo(calls[i], "update") = {}

\* C9's case: a commission value was sent, the catalog came back without the
\* 'Commission type' field, and the invocation has returned
C9_Witness ==
    \E i \in Slots :
        /\ updating(i)
        /\ returned(i)
        /\ Truthy(event[i].data.commission_type)
        /\ outcomeOf(i, "catalog").ok
        /\ outcomeOf(i, "catalog").json = "array"
        /\ ~listsCommission(outcomeOf(i, "catalog"))
        /\ response[i].statusCode = 200

\* C10 as stated: with nothing to set, an update_custom_fields invocation
\* makes no vendor call at all; this fails, the catalog being fetched first
C10_AsStated ==
    \A i \in Slots :
        (updating(i) /\ returned(i) /\ nothingToSet(i)) => calls[i] = <<>>

\* C10: with nothing to set, an update_custom_fields invocation makes exactly
\* one vendor call, the GET of the custom-field catalog, and answers 200.
C10_OnlyTheCatalogFetch ==
    \A i \in Slots :
        (updating(i) /\ returned(i) /\ nothingToSet(i))
        => /\ Len(calls[i]) = 1
           /\ calls[i][1].name = "catalog"
           /\ calls[i][1].outcome.kind # "pending"
           /\ response[i].statusCode = 200

\* C10's case: no commission value was sent, the catalog was fetched in full,
\* and the invocation has returned after that one call
C10_Witness ==
    \E i \in Slots :
        /\ updating(i)
        /\ returned(i)
        /\ ~Truthy(event[i].data.commission_type)
        /\ Len(calls[i]) = 1
        /\ listsCommission(calls[i][1].outcome)

\* The key the catalog response gives the 'Commission type' field: its key, else its id
commissionKeyIn(outcome) ==
    LET k == CHOOSE k \in 1..Len(outcome.value) :
                 /\ toLowerCase(core(outcome.value[k].title)) = toLowerCase(LABEL_COMMISSION_TYPE)
                 /\ (outcome.value[k].key # "" \/ outcome.value[k].id # "")
    IN IF outcome.value[k].key # "" THEN outcome.value[k].key ELSE outcome.value[k].id
\* An update_custom_fields invocation with a commission value whose label resolved
somethingToSet(i) ==
    /\ updating(i)
    /\ Truthy(event[i].data.commission_type)
    /\ callsTo(calls[i], "catalog") # {}
    /\ listsCommission(outcomeOf(i, "catalog"))

\* C11: an update_custom_fields invocation with a commission value and a
\* resolved label sends exactly one PATCH, to the affiliate, whose body holds
\* the custom_fields object and nothing else; a non-success response to it
\* gives an error response with the vendor's status, a success response gives
\* the 200 acknowledgement with success, mode and affiliate_id.
C11_UpdatePatchesCustomFieldsOnly ==
    \A i \in Slots :
        (somethingToSet(i) /\ returned(i))
        => /\ Cardinality(callsTo(calls[i], "update")) = 1
           /\ Len(calls[i]) = 2
           /\ calls[i][2].name = "update"
           /\ calls[i][2].id = event[i].data.affiliate_id
           /\ DOMAIN calls[i][2].body = {"custom_fields"}
           /\ DOMAIN calls[i][2].body["custom_fields"]
                = {commissionKeyIn(outcomeOf(i, "catalog"))}
           /\ (calls[i][2].outcome.kind = "response" /\ ~calls[i][2].outcome.ok)
               => /\ response[i].statusCode = calls[i][2].outcome.status
                  /\ response[i].body
                       = ("error" :> <<"Failed to update commission type">>)
                         @@ ("status" :> calls[i][2].outcome.status)
           /\ (calls[i][2].outcome.kind = "response" /\ calls[i][2].outcome.ok)
               => response[i]
                    = [statusCode |-> 200,
                       body |-> ("success" :> TRUE) @@ ("mode" :> MODE_UPDATE)
                                @@ ("affiliate_id" :> event[i].data.affiliate_id)]

\* C11's case: the PATCH of an update_custom_fields request was refused with
\* 404 and the response carries that status
C11_Witness ==
    \E i \in Slots :
        /\ somethingToSet(i)
        /\ returned(i)
        /\ Len(calls[i]) = 2
        /\ calls[i][2].outcome.status = 404
        /\ response[i].statusCode = 404

\* The three commission values the vendor is sent
canonicalCommission ==
    {<<"I", " ", "w", "a", "n", "t", " ", "1", "0", "%", " ", "c", "o", "m", "m", "i", "s", "s", "i", "o", "n">>,
     <<"I", " ", "w", "a", "n", "t", " ", "1", "0", "%", " ", "d", "i", "s", "c", "o", "u", "n", "t", " ", "c", "o", "d", "e">>,
     <<"C", "u", "s", "t", "o", "m">>}
\* The value sent for a commission input
commissionSentFor(value) ==
    IF value.t = "string" /\ value.s \in canonicalCommission
    THEN value
    ELSE [t |-> "string",
          s |-> <<"I", " ", "w", "a", "n", "t", " ", "1", "0", "%", " ", "c", "o", "m", "m", "i", "s", "s", "i", "o", "n">>]
\* The calls whose body carries the commission custom field
commissionCalls(i) ==
    {k \in callsTo(calls[i], "create") \cup callsTo(calls[i], "update") :
        /\ callsTo(calls[i], "catalog") # {}
        /\ listsCommission(outcomeOf(i, "catalog"))
        /\ "custom_fields" \in DOMAIN calls[i][k].body
        /\ commissionKeyIn(outcomeOf(i, "catalog")) \in DOMAIN calls[i][k].body["custom_fields"]}

\* C12: in every mode, a commission custom field sent to the vendor holds one
\* of the three canonical values: the input itself when it is one of them,
\* 'I want 10% commission' for any other input; and a creation or PATCH call
\* made with a commission input and a resolved label carries the field.
C12_CommissionValueCanonical ==
    \A i \in Slots :
        /\ \A k \in commissionCalls(i) :
              LET sent == calls[i][k].body["custom_fields"][commissionKeyIn(outcomeOf(i, "catalog"))]
              IN /\ sent.t = "string"
                 /\ sent.s \in canonicalCommission
                 /\ sent = commissionSentFor(event[i].data.commission_type)
        /\ \A k \in callsTo(calls[i], "create") \cup callsTo(calls[i], "update") :
              (Truthy(event[i].data.commission_type) /\ listsCommission(outcomeOf(i, "catalog")))
              => k \in commissionCalls(i)

\* C12's case: a legacy request with commission_type 'bogus' has sent its
\* creation call with the commission field
C12_Witness ==
    \E i \in Slots :
        /\ validated(i, "legacy")
        /\ event[i].data.commission_type = [t |-> "string", s |-> <<"b", "o", "g", "u", "s">>]
        /\ commissionCalls(i) # {}

\* The ISO code C13 gives a country input: GB for 'uk', 'gb', 'United
\* Kingdom', for an absent and for an unknown country, the code of a known
\* name whatever its case, and any other two letters in upper case
codeAsStated(country) ==
    LET gb == [t |-> "string", s |-> <<"G", "B">>]
    IN IF country.t = "undefined" THEN gb
       ELSE IF toLowerCase(country.s) \in {<<"u", "k">>, <<"g", "b">>} THEN gb
       ELSE IF Len(country.s) = 2 THEN [t |-> "string", s |-> toUpperCase(country.s)]
       ELSE IF toLowerCase(country.s) = <<"f", "r", "a", "n", "c", "e">>
       THEN [t |-> "string", s |-> <<"F", "R">>]
       ELSE IF toLowerCase(country.s) = <<"i", "t", "a", "l", "y">>
       THEN [t |-> "string", s |-> <<"I", "T">>]
       ELSE gb

\* C13 as stated: the country code of every creation payload is the one the
\* claim gives the request's country; this fails for 'uk', which the
\* two-letter test sends on as 'UK' before the table that maps UK to GB is read
C13_AsStated ==
    \A i \in Slots : \A k \in callsTo(calls[i], "create") :
        event[i].data.country.t \in {"undefined", "string"}
        => calls[i][k].body["address"].country.code = codeAsStated(event[i].data.country)

\* C14: the creation payload of a legacy request has no top-level key other
\* than firstname, lastname, email, password, company_description, address,
\* company and custom_fields, so none of company_type, commission_type,
\* number_of_properties; its company object holds the company name alone.
C14_LegacyRawKeysNotForwarded ==
    \A i \in Slots : \A k \in callsTo(calls[i], "create") :
        validated(i, "legacy")
        => /\ DOMAIN calls[i][k].body
                \subseteq {"firstname", "lastname", "email", "password",
                           "company_description", "address", "company", "custom_fields"}
           /\ DOMAIN calls[i][k].body
                \cap {"company_type", "commission_type", "number_of_properties"} = {}
           /\ calls[i][k].body["company"] = [name |-> event[i].data.company]

\* C14's case: a legacy request with company_type, commission_type and
\* number_of_properties has sent a creation call that carries custom fields
C14_Witness ==
    \E i \in Slots :
        /\ validated(i, "legacy")
        /\ Truthy(event[i].data.company_type)
        /\ Truthy(event[i].data.commission_type)
        /\ Truthy(event[i].data.number_of_properties)
        /\ \E k \in callsTo(calls[i], "create") :
              "custom_fields" \in DOMAIN calls[i][k].body

\* C15 as stated: an OPTIONS request is answered 200 with an empty body and
\* no vendor call; this fails, the test for POST answering it 405 first
C15_AsStated ==
    \A i \in Slots :
        (started(i) /\ event[i].httpMethod = "OPTIONS")
        => /\ returned(i)
           /\ response[i].statusCode = 200
           /\ DOMAIN response[i].body = {}
           /\ calls[i] = <<>>

\* C16: a request whose method is neither POST nor OPTIONS is answered 405
\* with the error 'Method not allowed' and no vendor call, whether or not the
\* key is set and whether or not its body is JSON.
C16_OtherMethodsRefused ==
    \A i \in Slots :
        (started(i) /\ event[i].httpMethod \notin {"POST", "OPTIONS"})
        => /\ returned(i)
           /\ response[i]
                = [statusCode |-> 405, body |-> ("error" :> <<"Method not allowed">>)]
           /\ calls[i] = <<>>

\* C16's case: a GET request whose body is no JSON has been answered 405
\* while the key is not set
C16_Witness ==
    \E i \in Slots :
        /\ returned(i)
        /\ event[i].httpMethod = "GET"
        /\ event[i].body = "invalid"
        /\ ~apiKeySet
        /\ response[i].statusCode = 405

\* A create_affiliate_only or legacy invocation whose creation call has settled
created(i) ==
    /\ (validated(i, "create_affiliate_only") \/ validated(i, "legacy"))
    /\ callsTo(calls[i], "create") # {}
    /\ outcomeOf(i, "create").kind # "pending"
\* The creation call is the last call of the invocation
creationEndsTheCalls(i) ==
    /\ calls[i][Len(calls[i])].name = "create"
    /\ \A k \in 1..Len(calls[i]) : calls[i][k].name \in {"catalog", "create"}

C18_CreationRefusalStatus ==
    \A i \in Slots :
        (/\ created(i)
         /\ outcomeOf(i, "create").kind = "response"
         /\ ~outcomeOf(i, "create").ok)
        => /\ returned(i)
           /\ IF outcomeOf(i, "create").contentType = "text/html"
              THEN response[i] = tryAgainResponse(outcomeOf(i, "create").status)
              ELSE response[i].statusCode = outcomeOf(i, "create").status
           /\ DOMAIN response[i].body = {"error", "status"}
           /\ response[i].body["status"] = outcomeOf(i, "create").status
           /\ creationEndsTheCalls(i)

\* C18's case: the creation call of a create_affiliate_only request was
\* refused with a 502 HTML page and answered 500
C18_Witness ==
    \E i \in Slots :
        /\ validated(i, "create_affiliate_only")
        /\ created(i)
        /\ outcomeOf(i, "create").status = 502
        /\ outcomeOf(i, "create").contentType = "text/html"
        /\ response[i].statusCode = 500

\* C19: create_affiliate_only issues no call but the catalog fetch, the
\* creation and the parent link, and its 200 response holds success, mode and
\* affiliate_id only; finalize_affiliate issues no creation call;
\* update_custom_fields issues no call but the catalog fetch and the PATCH.
C19_ModesKeepToTheirCalls ==
    \A i \in Slots : \A k \in 1..Len(calls[i]) :
        /\ validated(i, "create_affiliate_only")
            => /\ calls[i][k].name \in {"catalog", "create", "parent"}
               /\ (returned(i) /\ response[i].statusCode = 200)
                   => DOMAIN response[i].body = {"success", "mode", "affiliate_id"}
        /\ validated(i, "finalize_affiliate") => calls[i][k].name # "create"
        /\ validated(i, "update_custom_fields")
            => calls[i][k].name \in {"catalog", "update"}

\* C19's case: a create_affiliate_only request that carries a website has
\* been answered 200 after its creation call
C19_Witness ==
    \E i \in Slots :
        /\ validated(i, "create_affiliate_only")
        /\ returned(i)
        /\ Truthy(event[i].data.website)
        /\ response[i].statusCode = 200
        /\ Len(calls[i]) >= 2

\* A legacy invocation whose creation succeeded and whose enrollment call got
\* a non-success response
legacyEnrollmentRefused(i) ==
    /\ validated(i, "legacy")
    /\ returned(i)
    /\ callsTo(calls[i], "enroll") # {}
    /\ outcomeOf(i, "enroll").kind = "response"
    /\ ~outcomeOf(i, "enroll").ok
\* The response names no affiliate, and the enrollment call was the last call
noIdAndNoParentLink(i) ==
    /\ DOMAIN response[i].body = {"error", "status"}
    /\ callsTo(calls[i], "parent") = {}
    /\ calls[i][Len(calls[i])].name = "enroll"

\* C20 as stated: in legacy mode a refused enrollment is answered with the
\* 'created but failed to enroll' error, without the affiliate's id and with
\* no parent-link call; this fails for an HTML error page
C20_AsStated ==
    \A i \in Slots :
        legacyEnrollmentRefused(i)
        => /\ response[i] = notEnrolledResponse(outcomeOf(i, "enroll").status)
           /\ noIdAndNoParentLink(i)

\* C20: in legacy mode a refused enrollment is answered with the vendor's
\* status and 'Affiliate created but failed to enroll in program.' unless the
\* response is text/html, which is answered with the generic 500 'Something
\* went wrong ...'; either response holds error and status only, not the
\* created affiliate's id, and no parent-link call is made.
C20_LegacyEnrollmentRefusal ==
    \A i \in Slots :
        legacyEnrollmentRefused(i)
        => /\ response[i]
                = (IF outcomeOf(i, "enroll").contentType = "text/html"
                   THEN tryAgainResponse(outcomeOf(i, "enroll").status)
                   ELSE notEnrolledResponse(outcomeOf(i, "enroll").status))
           /\ noIdAndNoParentLink(i)

\* C20's case: a legacy request with the parent id '42' was created, its
\* enrollment refused with a JSON 404, and the response is the 404 error
C20_Witness ==
    \E i \in Slots :
        /\ legacyEnrollmentRefused(i)
        /\ event[i].data.parent_id = [t |-> "string", s |-> <<"4", "2">>]
        /\ Truthy(outcomeOf(i, "create").value.id)
        /\ response[i] = notEnrolledResponse(404)

\* The cache holds a map with the commission label, as a cached map must to
\* be returned
cacheHoldsCommission ==
    /\ customFieldsCache.ok
    /\ cacheTimestamp # 0
    /\ fieldKey(customFieldsCache.map, LABEL_COMMISSION_TYPE) # ""

wholeMapOfCatalogFull ==
    (<<"c", "o", "m", "p", "a", "n", "y", " ", "t", "y", "p", "e">> :> "company_type")
    @@ (<<"c", "o", "m", "m", "i", "s", "s", "i", "o", "n", " ", "t", "y", "p", "e">> :> "12")
    @@ (<<"f", "r", "e", "e", " ", "d", "e", "m", "o", " ", "c", "a", "l", "l", "?">> :> "free_demo_call")
wholeMapOfCatalogNoCommission ==
    (<<"c", "o", "m", "p", "a", "n", "y", " ", "t", "y", "p", "e">> :> "company_type")
    @@ (<<"d", "o", " ", "y", "o", "u", " ", "w", "a", "n", "t", " ", "a", " ", "f", "r", "e", "e", " ", "d", "e", "m", "o", " ", "c", "a", "l", "l", "?">> :> "demo_call")
wholeMaps == {wholeMapOfCatalogFull, wholeMapOfCatalogNoCommission, EmptyObject}

\* C22: under every interleaving of invocations that overlap and share the
\* cache, customFieldsCache is in every reachable state either null or the
\* whole label -> key map of one single catalog response, never a part of one
\* and never a mix of two; it is null exactly while no timestamp is set.
C22_CacheIsOneWholeMap ==
    /\ \/ customFieldsCache = NullMap
       \/ customFieldsCache.ok /\ customFieldsCache.map \in wholeMaps
    /\ customFieldsCache = NullMap <=> cacheTimestamp = 0

\* C22's case: two invocations overlap, the catalog was answered to one
\* without the commission field and to the other in full, and the cache holds
\* the whole map of the full answer
C22_Witness ==
    \E i \in Slots, j \in Slots :
        /\ pc[i] = "awaitCreate"
        /\ pc[j] = "awaitEnroll"
        /\ outcomeOf(i, "catalog").kind = "response"
        /\ outcomeOf(i, "catalog").json = "array"
        /\ outcomeOf(i, "catalog").value = CatalogNoCommission
        /\ outcomeOf(j, "catalog").kind = "response"
        /\ outcomeOf(j, "catalog").json = "array"
        /\ outcomeOf(j, "catalog").value = CatalogFull
        /\ customFieldsCache.map = wholeMapOfCatalogFull

\* The last call of an invocation threw, or its success body could not be parsed
threw(outcome) ==
    \/ outcome.kind = "throw"
    \/ outcome.kind = "response" /\ outcome.ok /\ outcome.json = "throws"
\* The message of the exception raised by such a call
raisedBy(outcome) ==
    IF outcome.kind = "throw" THEN outcome.errors.texts[1] ELSE "Unexpected token < in JSON"
\* The last call of the invocation went to `name` and raised an exception
lastCallThrew(i, name) ==
    /\ calls[i] # <<>>
    /\ calls[i][Len(calls[i])].name = name
    /\ threw(calls[i][Len(calls[i])].outcome)
\* The exceptions raised outside every try block but the handler's own: the
\* request body that cannot be parsed or parses to null, a country that is no
\* string, and the creation and enrollment calls
raisedToTopLevel(i) ==
    LET d == event[i].data
        profileComplete ==
            \/ /\ modeOf(d) = "create_affiliate_only"
               /\ lacking(d, requiredFieldsStageA) = <<>>
            \/ /\ modeOf(d) = "legacy"
               /\ Truthy(d.program)
               /\ lacking(d, requiredFields) = <<>>
    IN IF ~started(i) \/ ~apiKeySet \/ event[i].httpMethod # "POST" THEN {}
       ELSE IF event[i].body = "invalid" THEN {"Unexpected token in JSON"}
       ELSE IF event[i].body = "null"
       THEN {"Cannot read properties of null (reading 'mode')"}
       ELSE IF profileComplete /\ Truthy(d.country) /\ d.country.t # "string"
       THEN {"countryName.trim is not a function"}
       ELSE {raisedBy(calls[i][Len(calls[i])].outcome) :
                n \in {n \in {"create", "enroll"} : lastCallThrew(i, n)}}
\* The PATCH of update_custom_fields raised an exception
updateRaised(i) == updating(i) /\ lastCallThrew(i, "update")
\* The response of the handler's own catch
internalServerError(message) ==
    [statusCode |-> 500,
     body |-> ("error" :> <<"Internal server error">>) @@ ("message" :> <<message>>)]

\* C23 as stated: every exception raised outside a best-effort step is
\* answered 500 with the error 'Internal server error' and the exception's
\* message; this fails for the PATCH of update_custom_fields, which is no
\* best-effort step and has a catch of its own
C23_AsStated ==
    \A i \in Slots :
        /\ \A message \in raisedToTopLevel(i) :
              returned(i) /\ response[i] = internalServerError(message)
        /\ updateRaised(i)
              => returned(i) /\ response[i] = internalServerError(raisedBy(outcomeOf(i, "update")))

\* C23: an exception raised by the parsing of the request body, by the
\* country conversion, or by the creation or enrollment call (thrown fetch or
\* a success body that cannot be parsed) ends the invocation with status 500,
\* the error 'Internal server error' and the exception's message; one raised
\* by the PATCH of update_custom_fields ends it with status 500, the error
\* 'Internal server error while updating custom fields' and the exception's
\* message; every invocation that ended has a response.
C23_ExceptionsAnswered500 ==
    \A i \in Slots :
        /\ \A message \in raisedToTopLevel(i) :
              returned(i) /\ response[i] = internalServerError(message)
        /\ updateRaised(i)
              => /\ returned(i)
                 /\ response[i].statusCode = 500
                 /\ response[i].body
                      = ("error" :> <<"Internal server error while updating custom fields">>)
                        @@ ("message" :> <<raisedBy(outcomeOf(i, "update"))>>)
        /\ (started(i) /\ (calls[i] = <<>> \/ calls[i][Len(calls[i])].outcome.kind # "pending"))
              => returned(i) /\ response[i].statusCode \in 200..599

\* C23's case: a legacy invocation whose enrollment call answered 200 with a
\* body that is no JSON has ended with the handler's 500
C23_Witness ==
    \E i \in Slots :
        /\ validated(i, "legacy")
        /\ lastCallThrew(i, "enroll")
        /\ outcomeOf(i, "enroll").kind = "response"
        /\ returned(i)
        /\ response[i] = internalServerError("Unexpected token < in JSON")

\* The six vendor endpoints
VendorCalls == {"catalog", "create", "update", "website", "enroll", "parent"}

\* C24: no vendor call is retried: in every invocation each of the six
\* vendor calls occurs at most once in the call log, whatever the vendor
\* answered, and every call but the last has completed (a call is issued only
\* after the call before it has returned or thrown).
C24_NoRetryOneCallAtATime ==
    \A i \in Slots :
        /\ \A k \in 1..Len(calls[i]) : calls[i][k].name \in VendorCalls
        /\ \A name \in VendorCalls : Cardinality(callsTo(calls[i], name)) <= 1
        /\ \A k \in 1..(Len(calls[i]) - 1) : calls[i][k].outcome.kind # "pending"
        /\ (calls[i] # <<>> /\ calls[i][Len(calls[i])].outcome.kind = "pending")
              => ~returned(i)

\* C24's case: a finalize invocation whose catalog fetch, PATCH and website
\* call all failed has gone on to its enrollment call, each call made once
C24_Witness ==
    \E i \in Slots :
        /\ finalizing(i)
        /\ Len(calls[i]) = 4
        /\ calls[i][1].name = "catalog" /\ calls[i][1].outcome.kind = "throw"
        /\ calls[i][2].name = "update" /\ ~calls[i][2].outcome.ok
        /\ calls[i][3].name = "website" /\ calls[i][3].outcome.kind = "throw"
        /\ calls[i][4].name = "enroll" /\ calls[i][4].outcome.kind = "pending"

\* A finalize or legacy invocation whose body carries a program
enrolling(i) == validated(i, "finalize_affiliate") \/ validated(i, "legacy")

\* C25 as stated: the program id in the enrollment URL is the mapped slug for
\* the programs USD, EUR, GBP and AUD and the program as it was sent for every
\* other non-empty program, and a request without a program or with an empty
\* one is answered 400 'Missing or invalid program selection' with no vendor
\* call; this fails for a program named like a member every object inherits
\* ('constructor'), which the table lookup finds
C25_AsStated ==
    \A i \in Slots :
        LET program == event[i].data.program
        IN /\ (enrolling(i) /\ callsTo(calls[i], "enroll") # {})
                => JSString(callNamed(calls[i], "enroll").id)
                      = IF program.t = "string" /\ program.s \in DOMAIN PROGRAM_ID_MAP
                        THEN PROGRAM_ID_MAP[program.s]
                        ELSE JSString(program)
           /\ ((validated(i, "legacy")
                   \/ (validated(i, "finalize_affiliate")
                          /\ Truthy(event[i].data.affiliate_id)))
                 /\ program \in {Undefined, Null, Str(<<>>)})
                => /\ returned(i)
                   /\ response[i].statusCode = 400
                   /\ response[i].body
                        = ("error" :> <<"Missing or invalid ", "program", " selection">>)
                   /\ calls[i] = <<>>

\* names.join(', ') as the message shows it
commaSeparated(names) ==
    [k \in 1..(2 * Len(names) - 1) |-> IF k % 2 = 1 THEN names[(k + 1) \div 2] ELSE ", "]
\* The four fields create_affiliate_only asks for, in the order of its check
StageAFields == <<"first_name", "last_name", "email", "password">>

\* C26: in create_affiliate_only a field among first_name, last_name, email,
\* password counts as missing exactly when it is undefined, null, or a string
\* that is empty after trimming (the number 0 is present): when any is missing
\* the answer is 400 'Missing required fields: ' followed by all the missing
\* names in that order, separated by ', ', naming no field that is present,
\* and no vendor call is made; when none is missing there is no such 400.
C26_StageAMissingFields ==
    \A i \in Slots :
        LET missing == lacking(event[i].data, StageAFields)
        IN validated(i, "create_affiliate_only")
           => IF missing # <<>>
              THEN /\ returned(i)
                   /\ response[i].statusCode = 400
                   /\ response[i].body
                        = ("error" :> (<<"Missing required fields: ">> \o commaSeparated(missing)))
                   /\ calls[i] = <<>>
              ELSE ~(/\ returned(i)
                     /\ "error" \in DOMAIN response[i].body
                     /\ Head(response[i].body["error"]) = "Missing required fields: ")

\* C26's case: first_name is the number 0, last_name is blank and email is
\* absent; the refusal names last_name and email only
C26_Witness ==
    \E i \in Slots :
        /\ validated(i, "create_affiliate_only")
        /\ event[i].data.first_name = Num(<<"0">>)
        /\ event[i].data.last_name.t = "string"
        /\ event[i].data.last_name.s # <<>>
        /\ event[i].data.email = Undefined
        /\ returned(i)
        /\ response[i].body
             = ("error" :> <<"Missing required fields: ", "last_name", ", ", "email">>)

\* The company types for which the description that was sent is passed on
TypesWithDescription ==
    {<<"p", "m", "s">>, <<"v", "e", "n", "u", "e">>, <<"b", "l", "o", "g">>,
     <<"t", "o", "u", "r", "-", "o", "p", "e", "r", "a", "t", "o", "r">>,
     <<"t", "r", "a", "n", "s", "p", "o", "r", "t", "a", "t", "i", "o", "n", "s">>,
     <<"o", "t", "h", "e", "r">>}
\* The description a request is to be sent with; Undefined when none is
describedAs(affiliateData) ==
    IF affiliateData.company_type = Str(<<"v", "a", "c", "a", "t", "i", "o", "n", "-", "r", "e", "n", "t", "a", "l">>)
    THEN Str(<<"S", "T", "R">>)
    ELSE IF /\ affiliateData.company_type.t = "string"
            /\ affiliateData.company_type.s \in TypesWithDescription
            /\ affiliateData.company_description \notin {Undefined, Null, Str(<<>>)}
    THEN affiliateData.company_description
    ELSE Undefined

resolvedKey(outcome, label) ==
    IF outcome.kind = "response" /\ outcome.ok /\ outcome.json = "array"
    THEN LET hits == {k \in 1..Len(outcome.value) :
                         /\ toLowerCase(core(outcome.value[k].title)) = toLowerCase(label)
                         /\ (outcome.value[k].key # "" \/ outcome.value[k].id # "")}
             last == CHOOSE k \in hits : \A j \in hits : j <= k
         IN IF hits = {} THEN ""
            ELSE IF outcome.value[last].key # "" THEN outcome.value[last].key
            ELSE outcome.value[last].id
    ELSE ""
\* The custom-field keys a creation body is to carry after that catalog answer
resolvedKeys(affiliateData, outcome) ==
    ((IF Truthy(affiliateData.company_type)
      THEN {resolvedKey(outcome, <<"C", "o", "m", "p", "a", "n", "y", " ", "t", "y", "p", "e">>)}
      ELSE {})
     \cup (IF Truthy(affiliateData.commission_type)
           THEN {resolvedKey(outcome, <<"C", "o", "m", "m", "i", "s", "s", "i", "o", "n", " ", "t", "y", "p", "e">>)}
           ELSE {})
     \cup (IF affiliateData.wantsDemoCall \notin {Undefined, Null}
           THEN {IF resolvedKey(outcome, <<"F", "r", "e", "e", " ", "D", "E", "M", "O", " ", "c", "a", "l", "l", "?">>) # ""
                 THEN resolvedKey(outcome, <<"F", "r", "e", "e", " ", "D", "E", "M", "O", " ", "c", "a", "l", "l", "?">>)
                 ELSE resolvedKey(outcome, <<"D", "o", " ", "y", "o", "u", " ", "w", "a", "n", "t", " ", "a", " ", "F", "R", "E", "E", " ", "D", "E", "M", "O", " ", "c", "a", "l", "l", "?">>)}
           ELSE {}))
    \ {""}

\* C28: in create_affiliate_only and in legacy mode the custom fields are
\* resolved on a best-effort basis: whatever the catalog fetch gave (thrown,
\* refused, unreadable, or a list lacking a label), the creation call is the
\* next call and no response is returned in its place; its body carries under
\* custom_fields exactly the fields that were sent and whose label resolved,
\* and has no custom_fields when none did.
C28_CreationWithoutResolvedFields ==
    \A i \in Slots :
        (/\ (validated(i, "create_affiliate_only") \/ validated(i, "legacy"))
         /\ calls[i] # <<>>
         /\ calls[i][1].outcome.kind # "pending")
        => /\ Len(calls[i]) >= 2
           /\ calls[i][2].name = "create"
           /\ LET body == calls[i][2].body
                  keys == resolvedKeys(event[i].data, calls[i][1].outcome)
              IN IF keys = {}
                 THEN "custom_fields" \notin DOMAIN body
                 ELSE /\ "custom_fields" \in DOMAIN body
                      /\ DOMAIN body["custom_fields"] = keys

\* C28's case: a create_affiliate_only request that sent a company type, a
\* commission type and a demo-call choice awaits its creation call after the
\* catalog fetch threw; the body has no custom_fields
C28_Witness ==
    \E i \in Slots :
        /\ validated(i, "create_affiliate_only")
        /\ Truthy(event[i].data.company_type)
        /\ Truthy(event[i].data.commission_type)
        /\ event[i].data.wantsDemoCall = JSFalse
        /\ pc[i] = "awaitCreate"
        /\ calls[i][1].outcome.kind = "throw"
        /\ "custom_fields" \notin DOMAIN calls[i][2].body

\* The catalog fetch of invocation i settles in this step
catalogSettling(i) ==
    /\ pc[i] = "awaitCatalog"
    /\ pc'[i] # "awaitCatalog"
\* A catalog answer from which a map is built: an ok response with readable JSON
catalogFetched(outcome) ==
    outcome.kind = "response" /\ outcome.ok /\ outcome.json # "throws"

\* C29: a catalog fetch that fails (a response that is not ok, a thrown
\* fetch, a body that cannot be read) leaves customFieldsCache and
\* cacheTimestamp as they were, and the two change in no other step than one
\* in which a catalog fetch succeeds, which sets the cache to a map and the
\* timestamp to the time that call of getCustomFieldKeys read.
C29_CacheWrittenOnlyByAFetch ==
    [][/\ \A i \in Slots :
             (catalogSettling(i) /\ ~catalogFetched(calls'[i][1].outcome))
             => UNCHANGED <<customFieldsCache, cacheTimestamp>>
       /\ (customFieldsCache' # customFieldsCache \/ cacheTimestamp' # cacheTimestamp)
             => \E i \in Slots :
                   /\ catalogSettling(i)
                   /\ catalogFetched(calls'[i][1].outcome)
                   /\ customFieldsCache'.ok
                   /\ cacheTimestamp' = now[i]]_vars

\* C29's case: the catalog fetch of an invocation threw while the cache held
\* the map and the timestamp of an earlier invocation; both are still there
C29_Witness ==
    \E i \in Slots :
        /\ started(i)
        /\ calls[i] # <<>>
        /\ calls[i][1].name = "catalog"
        /\ calls[i][1].outcome.kind = "throw"
        /\ customFieldsCache.ok
        /\ cacheTimestamp # 0
        /\ cacheTimestamp < now[i]

\* C30: provided every vendor call returns or throws in the end, every
\* invocation that was started returns a response in the end; it has made at
\* most five vendor calls, it holds no response before it returns and one
\* response, with a status, once it has.
C30_EveryInvocationReturns ==
    /\ [](\A i \in Slots :
             /\ Len(calls[i]) <= 5
             /\ returned(i) <=> response[i] # NoResponse
             /\ returned(i) => response[i].statusCode \in 200..599)
    /\ \A i \in Slots : started(i) ~> returned(i)

\* C30's case: a legacy invocation has returned after five vendor calls, the
\* last of which, the parent link, threw
C30_Witness ==
    \E i \in Slots :
        /\ validated(i, "legacy")
        /\ returned(i)
        /\ Len(calls[i]) = 5
        /\ calls[i][5].name = "parent"
        /\ calls[i][5].outcome.kind = "throw"
        /\ response[i].statusCode = 200

====
